---- MODULE Spec2Model ----
(***************************************************************************)
(* Model of datasetviewer.py: the SQLite record store (DatasetDatabase),   *)
(* the streaming ingestor (DatasetDownloader) and the search-query         *)
(* compiler (DatasetDatabase.search_posts and its helpers).                *)
(*                                                                         *)
(* Strings that the code inspects character by character (file names,      *)
(* queries, tag strings) are sequences of one-character strings.  A        *)
(* nullable value (a SQL NULL, a Python None, an absent JSON key) is the   *)
(* empty tuple None, a present value v is Some(v).                         *)
(***************************************************************************)
EXTENDS Integers, Sequences, FiniteSets, TLC

VARIABLES
    posts,              \* table posts, in rowid order (the connection's view)
    ledger,             \* table processed_files: the set of filenames
    cancel_flag,        \* DatasetDownloader.cancel_flag (threading.Event)
    file_limit,         \* DatasetDownloader.file_limit (0 stands for None)
    total_files,        \* DatasetDownloader.total_files
    processed_files,    \* DatasetDownloader.processed_files
    total_posts_added,  \* DatasetDownloader.total_posts_added
    is_downloading,     \* DatasetDownloader.is_downloading
    pc,                 \* position of the worker inside download_and_process
    files_to_process,   \* local of download_and_process
    i,                  \* loop index of download_and_process (1-based)
    stream,             \* locals of _stream_process_file
    remote,             \* the remote dataset: listing and file contents
    run,                \* number of runs of download_and_process started
    hist,               \* per run: what the run observed and did
    op,                 \* the last direct store call and its outcome
    query,              \* the query string handed to search_posts
    qres,               \* the outcome of search_posts(query)
    lock,               \* DatasetDatabase.lock: the thread that holds it
    conn,               \* DatasetDatabase.conn: open or closed
    thread,             \* per thread: the store method it is in, and where
    calls,              \* per thread: store methods returned from
    workers             \* the threads start_download has started, in order

vars == <<posts, ledger, cancel_flag, file_limit, total_files, processed_files,
          total_posts_added, is_downloading, pc, files_to_process, i, stream,
          remote, run, hist, op, query, qres, lock, conn, thread, calls,
          workers>>

storeVars == <<posts, ledger>>
dlVars    == <<cancel_flag, file_limit, total_files, processed_files,
               total_posts_added, is_downloading, pc, files_to_process, i,
               stream, remote, run, hist>>
queryVars == <<query, qres>>
lockVars  == <<lock, conn, thread, calls>>

-----------------------------------------------------------------------------
(* Bounds of the model *)

MaxRuns == 2        \* runs of download_and_process in one behaviour
MaxCalls == 2       \* direct store calls in one behaviour of SpecStore
MaxBatch == 2       \* longest batch handed to insert_batch directly
MaxTokens == 3       \* most tokens in a query built from a token pool
MaxQueryLen == 4    \* longest query of the tokenizer's exhaustive inputs
batch_size == 2     \* _stream_process_file's batch_size, scaled down from 1000
MaxLockCalls == 2   \* most store methods one thread calls
MaxStarts == 2      \* most calls of start_download

-----------------------------------------------------------------------------
(* Values *)

None == <<>>
Some(v) == <<v>>
Val(o) == o[1]

Min(a, b) == IF a <= b THEN a ELSE b

(* The characters of the model, in ASCII order. *)
CharOrder == <<"\t", "\n", " ", "\"", "%", "'", "(", ")", "*", "+", "-", ".",
               "0", "1", "2", "3", "4", "5", "6", "7", "8", "9", ":", ";",
               "<", "=", ">", "A",
               "B", "C", "D", "E", "F", "G", "H", "I", "J", "K", "L",
               "M", "N", "O", "P", "Q", "R", "S", "T", "U", "V", "W",
               "X", "Y", "Z", "_", "a", "b", "c", "d", "e", "f",
               "g", "h", "i", "j", "k", "l", "m", "n", "o", "p", "q",
               "r", "s", "t", "u", "v", "w", "x", "y", "z", "~">>

Ord(c) == CHOOSE k \in 1..Len(CharOrder) : CharOrder[k] = c

(* str.startswith / str.endswith *)
StartsWith(s, p) == Len(s) >= Len(p) /\ SubSeq(s, 1, Len(p)) = p
EndsWith(s, p) == Len(s) >= Len(p) /\ SubSeq(s, Len(s) - Len(p) + 1, Len(s)) = p

(* Python's < on str: lexicographic by code point. *)
RECURSIVE StrLess(_, _)
StrLess(a, b) ==
    IF b = <<>> THEN FALSE
    ELSE IF a = <<>> THEN TRUE
    ELSE IF Head(a) # Head(b) THEN Ord(Head(a)) < Ord(Head(b))
    ELSE StrLess(Tail(a), Tail(b))

-----------------------------------------------------------------------------
(* Decoded JSON values.  An object carries the keys the store reads with   *)
(* data.get(...); None is an absent key or a JSON null.                    *)

Obj(id, md5) ==
    [kind |-> "obj", id |-> id, md5 |-> md5, tag_string |-> None,
     rating |-> None, file_ext |-> None, score |-> None, fav_count |-> None,
     image_width |-> None, image_height |-> None, file_size |-> None]

Scalar == [kind |-> "scalar"]

(* The column values insert_post / insert_batch bind for one object. *)
Row(data) ==
    [post_id |-> data.id, md5 |-> data.md5, tag_string |-> data.tag_string,
     rating |-> data.rating, file_ext |-> data.file_ext, score |-> data.score,
     fav_count |-> data.fav_count, image_width |-> data.image_width,
     image_height |-> data.image_height, file_size |-> data.file_size]

-----------------------------------------------------------------------------
(* DatasetDatabase: schema constraints and the write operations *)

(* post_id INTEGER NOT NULL *)
NotNullOk(row) == row.post_id # None

(* md5 TEXT UNIQUE: NULLs are distinct from each other, '' is a value. *)
UniqueOkNoCheck(tbl, row) == TRUE

UniqueOk(tbl, row) ==
    row.md5 = None \/ \A k \in 1..Len(tbl) : tbl[k].md5 # row.md5

(* INSERT INTO posts succeeds, or raises sqlite3.IntegrityError. *)
Accepts(tbl, row) == NotNullOk(row) /\ UniqueOk(tbl, row)

(* Python truthiness of data.get('md5'): None and '' are falsy. *)
Truthy(md5) == md5 # None /\ md5 # Some("")

post_exists(tbl, md5) ==
    IF ~Truthy(md5) THEN FALSE
    ELSE \E k \in 1..Len(tbl) : tbl[k].md5 = md5

(* insert_post: the table afterwards and the value returned. *)
insert_post(tbl, data) ==
    IF Truthy(data.md5) /\ post_exists(tbl, data.md5)
    THEN [tbl |-> tbl, ret |-> FALSE]
    ELSE IF Accepts(tbl, Row(data))
         THEN [tbl |-> Append(tbl, Row(data)), ret |-> TRUE]
         ELSE [tbl |-> tbl, ret |-> FALSE]

(* insert_batch: the loop over posts.  data.get on a value that is not an  *)
(* object raises AttributeError, which leaves the loop (and the function)  *)
(* with the rows executed so far still in the connection.                  *)
RECURSIVE InsertLoop(_, _, _)
InsertLoop(tbl, ps, inserted) ==
    IF ps = <<>> THEN [tbl |-> tbl, inserted |-> inserted, raised |-> FALSE]
    ELSE IF Head(ps).kind # "obj"
    THEN [tbl |-> tbl, inserted |-> inserted, raised |-> TRUE]
    ELSE IF Accepts(tbl, Row(Head(ps)))
    THEN InsertLoop(Append(tbl, Row(Head(ps))), Tail(ps), inserted + 1)
    ELSE InsertLoop(tbl, Tail(ps), inserted)

insert_batch_backwards(tbl, ps) ==
    InsertLoop(tbl, [k \in 1..Len(ps) |-> ps[Len(ps) + 1 - k]], 0)

insert_batch(tbl, ps) == InsertLoop(tbl, ps, 0)

get_total_count(tbl) == Len(tbl)

is_file_processed(l, filename) == filename \in l

mark_file_processed_forgets(l, filename) == l

mark_file_processed(l, filename) == l \cup {filename}

-----------------------------------------------------------------------------
(* The remote source.  A file's byte stream is a sequence of chunks, a     *)
(* chunk a sequence of symbols: a newline, a run of blanks, or a piece of  *)
(* the text of one JSONL line (the whole text, or its head or tail when a  *)
(* chunk boundary cuts the line).                                          *)

NL == [line |-> 0, part |-> "nl"]
WS == [line |-> 0, part |-> "ws"]
W(k) == [line |-> k, part |-> "whole"]
H(k) == [line |-> k, part |-> "head"]
T(k) == [line |-> k, part |-> "tail"]

Invalid == [kind |-> "invalid"]

(* What the complete text of line k decodes to. *)
LineValue(k) ==
    CASE k = 1 -> Obj(Some(1), Some("h1"))
      [] k = 2 -> Obj(Some(2), Some("h2"))
      [] k = 3 -> Obj(Some(3), None)          \* no md5
      [] k = 4 -> Obj(None, Some("h3"))       \* no id
      [] k = 5 -> Obj(Some(5), Some(""))      \* md5 is the empty string
      [] k = 6 -> Obj(Some(6), Some("h1"))    \* same md5 as line 1
      [] k = 7 -> Scalar                      \* a JSON number
      [] k = 9 -> Obj(Some(9), Some("h2"))    \* same md5 as line 2
      [] k = 10 -> Obj(Some(10), Some("h3"))  \* same md5 as line 4
      [] OTHER -> Invalid                     \* malformed JSON

FILE_EXTENSION == <<".", "j", "s", "o", "n", "l">>

FileA == <<"a">> \o FILE_EXTENSION
FileB == <<"b">> \o FILE_EXTENSION
FileC == <<"c", ".", "t", "x", "t">>
FileD == <<"d">> \o FILE_EXTENSION
NoFile == <<>>

Content1(f) ==
    CASE f = FileA -> << <<H(1)>>, <<T(1), NL, W(3), NL, W(2), NL>>, <<W(5)>> >>
      [] f = FileB -> << <<W(6), NL, WS, NL, W(3), NL>>, <<W(4), NL, W(8), NL, W(5), NL>> >>
      [] OTHER -> << <<W(2), NL>> >>

Content2(f) ==
    CASE f = FileA -> << <<W(8), NL, W(1), NL, W(7), NL, W(2)>>, <<NL, W(3), NL>> >>
      [] f = FileB -> << <<W(2), NL, H(6)>>, <<T(6), NL>> >>
      [] OTHER -> << <<W(1), NL>> >>

Content3(f) ==
    CASE f = FileA -> << <<W(1), NL, W(6), NL, W(2), NL, H(3)>>,
                         <<T(3), NL, W(8), NL, W(9)>> >>
      [] f = FileD -> << <<W(3), NL>>, <<W(8), NL, W(7), NL>> >>
      [] OTHER -> << <<W(4), NL, W(5)>>, <<WS>>, <<NL, W(10), NL>> >>

Remotes ==
    { [listing |-> <<FileB, FileC, FileA>>, content |-> 1],
      [listing |-> <<FileA, FileB>>, content |-> 2],
      [listing |-> <<FileB, FileA>>, content |-> 3],
      [listing |-> <<FileD, FileA, FileB>>, content |-> 3] }

(* len(chunk.encode('utf-8')), a symbol counted as one byte *)
Bytes(chunk) == Len(chunk)

(* The content-length of a file: the bytes of all its chunks *)
RECURSIVE ContentLength(_)
ContentLength(chunks) ==
    IF chunks = <<>> THEN 0 ELSE Bytes(Head(chunks)) + ContentLength(Tail(chunks))

Chunks(rem, f) ==
    IF rem.content = 1 THEN Content1(f)
    ELSE IF rem.content = 2 THEN Content2(f)
    ELSE Content3(f)

(* str.strip() of a line: leading and trailing blanks removed. *)
RECURSIVE LStrip(_)
LStrip(s) == IF s # <<>> /\ Head(s) = WS THEN LStrip(Tail(s)) ELSE s

RECURSIVE RStrip(_)
RStrip(s) ==
    IF s # <<>> /\ s[Len(s)] = WS THEN RStrip(SubSeq(s, 1, Len(s) - 1)) ELSE s

Strip(s) == RStrip(LStrip(s))

(* json.loads: the decoded value, or Invalid for json.JSONDecodeError.     *)
(* A piece of a JSON number is itself a JSON number; a piece of any other  *)
(* line is not valid JSON.                                                 *)
JsonLoads(text) ==
    LET s == Strip(text) IN
    IF Len(s) = 1 /\ s[1].part = "whole" THEN LineValue(s[1].line)
    ELSE IF Len(s) = 2 /\ s[1].part = "head" /\ s[2].part = "tail"
            /\ s[1].line = s[2].line THEN LineValue(s[1].line)
    ELSE IF Len(s) = 1 /\ s[1].part \in {"head", "tail"}
            /\ LineValue(s[1].line) = Scalar THEN Scalar
    ELSE Invalid

HasNL(buf) == \E k \in 1..Len(buf) : buf[k] = NL
FirstNL(buf) == CHOOSE k \in 1..Len(buf) :
                    buf[k] = NL /\ \A j \in 1..(k - 1) : buf[j] # NL

BatchFullLate(b) == Len(b) > batch_size

(* line 586: len(batch) >= batch_size *)
BatchFull(b) == Len(b) >= batch_size

(* The "while '\n' in buffer" loop of _stream_process_file.  st holds the  *)
(* table and the function's locals; raised is set when insert_batch raises *)
(* (an exception that is not JSONDecodeError leaves the loop); handed are  *)
(* the values passed to insert_batch so far, peak the greatest length the  *)
(* batch has had.                                                          *)
RECURSIVE DrainLines(_)
DrainLines(st) ==
    IF st.raised \/ ~HasNL(st.buffer) THEN st
    ELSE LET p == FirstNL(st.buffer)
             line == SubSeq(st.buffer, 1, p - 1)
             s1 == [st EXCEPT !.buffer = SubSeq(st.buffer, p + 1, Len(st.buffer))]
         IN IF Strip(line) = <<>> THEN DrainLines(s1)
            ELSE LET data == JsonLoads(line) IN
                 IF data = Invalid THEN DrainLines(s1)
                 ELSE LET b == Append(st.batch, data)
                          s2 == [s1 EXCEPT !.peak = IF Len(b) > @ THEN Len(b) ELSE @]
                      IN
                      IF BatchFull(b)
                      THEN LET r == insert_batch(st.tbl, b) IN
                           IF r.raised
                           THEN [s2 EXCEPT !.tbl = r.tbl, !.batch = b,
                                           !.handed = @ \o b, !.raised = TRUE]
                           ELSE DrainLines([s2 EXCEPT !.tbl = r.tbl, !.batch = <<>>,
                                               !.handed = @ \o b,
                                               !.posts_added = @ + r.inserted])
                      ELSE DrainLines([s2 EXCEPT !.batch = b])

(* One iteration of the chunk loop past the cancel check (lines 574-591). *)
ProcessChunkPrepends(st, chunk) ==
    IF chunk = <<>> THEN st
    ELSE DrainLines([st EXCEPT !.buffer = chunk \o st.buffer])

ProcessChunk(st, chunk) ==
    IF chunk = <<>> THEN st
    ELSE DrainLines([st EXCEPT !.buffer = st.buffer \o chunk])

(* After the chunk loop (lines 602-613): the remaining buffer, then the    *)
(* remaining batch.                                                        *)
ProcessTail(st) ==
    LET data == IF Strip(st.buffer) # <<>> THEN JsonLoads(st.buffer) ELSE Invalid
        b == IF data # Invalid THEN Append(st.batch, data) ELSE st.batch
        s2 == [st EXCEPT !.peak = IF Len(b) > @ THEN Len(b) ELSE @]
    IN IF b = <<>> THEN [s2 EXCEPT !.batch = b]
       ELSE LET r == insert_batch(st.tbl, b) IN
            IF r.raised THEN [s2 EXCEPT !.tbl = r.tbl, !.batch = b,
                                        !.handed = @ \o b, !.raised = TRUE]
            ELSE [s2 EXCEPT !.tbl = r.tbl, !.batch = b, !.handed = @ \o b,
                            !.posts_added = @ + r.inserted]

-----------------------------------------------------------------------------
(* DatasetDownloader *)

(* sorted(): insertion into an ascending list *)
RECURSIVE InsertSorted(_, _)
InsertSorted(x, s) ==
    IF s = <<>> THEN <<x>>
    ELSE IF StrLess(x, Head(s)) THEN <<x>> \o s
    ELSE <<Head(s)>> \o InsertSorted(x, Tail(s))

RECURSIVE Sorted(_)
Sorted(s) == IF s = <<>> THEN <<>> ELSE InsertSorted(Head(s), Sorted(Tail(s)))

IsJsonl(f) == EndsWith(f, FILE_EXTENSION)

(* The .jsonl names in the order of the listing, not sorted *)
get_jsonl_files_unsorted(rem, ok) ==
    IF ok THEN SelectSeq(rem.listing, IsJsonl) ELSE <<>>

(* get_jsonl_files: an exception while listing yields the empty list. *)
get_jsonl_files(rem, ok) ==
    IF ok THEN Sorted(SelectSeq(rem.listing, IsJsonl)) ELSE <<>>

(* jsonl_files[:file_limit] when file_limit is truthy *)
ApplyLimit(files, limit) ==
    IF limit # 0 THEN SubSeq(files, 1, Min(limit, Len(files))) ELSE files

NoStream == [file |-> NoFile, pos |-> 0, buffer |-> <<>>, batch |-> <<>>,
             posts_added |-> 0, handed |-> <<>>, peak |-> 0, base |-> 0,
             total_size |-> 0, downloaded |-> 0]

(* What a run has done so far: attempted are the files made current_file   *)
(* (line 518), in order; skipped the files whose turn ended in the handler *)
(* of line 544; chunks the number of chunks processed; doneReports the     *)
(* number of progress_callback(1.0, ...) calls of lines 511 and 549;       *)
(* reports the fractions handed to progress_callback, in order, each a     *)
(* pair of numerator and denominator; startCount the rows in the table     *)
(* when the run began; message the N of "Done! Added N posts." (line 549). *)
NewRun == [cancelled |-> {}, failed |-> {}, opened |-> {}, marked |-> {},
           listFailed |-> FALSE, cancelTop |-> FALSE, ended |-> FALSE,
           endCount |-> 0, attempted |-> <<>>, skipped |-> {}, chunks |-> 0,
           doneReports |-> 0, raised |-> {}, reports |-> <<>>,
           startCount |-> 0, message |-> None]

(* The store as DatasetDatabase.__init__ leaves it (lines 52-57): the     *)
(* connection open, the lock free, no thread in a store method.            *)
Threads == {"ui", "worker"}

Out == [method |-> "none", at |-> "out"]

Unlocked ==
    /\ lock = "free"
    /\ conn = "open"
    /\ thread = [t \in Threads |-> Out]
    /\ calls = [t \in Threads |-> 0]

NoOp == [name |-> "none"]
NoQuery == <<>>
NoResult == [state |-> "none"]

CurrentFile == files_to_process[i]

Init ==
    /\ posts = <<>>
    /\ ledger = {}
    /\ cancel_flag = FALSE
    /\ file_limit \in {0, 1}
    /\ total_files = 0
    /\ processed_files = 0
    /\ total_posts_added = 0
    /\ is_downloading = FALSE
    /\ pc = "idle"
    /\ files_to_process = <<>>
    /\ i = 0
    /\ stream = NoStream
    /\ remote \in Remotes
    /\ run = 0
    /\ hist = <<>>
    /\ op = NoOp
    /\ query = NoQuery
    /\ qres = NoResult
    /\ Unlocked
    /\ workers = <<>>

(* download_and_process, line 493 *)
Begin ==
    /\ pc = "idle"
    /\ run < MaxRuns
    /\ is_downloading' = TRUE
    /\ run' = run + 1
    /\ hist' = Append(hist, [NewRun EXCEPT !.startCount = Len(posts)])
    /\ pc' = "clear"
    /\ UNCHANGED <<storeVars, cancel_flag, file_limit, total_files,
                   processed_files, total_posts_added, files_to_process, i,
                   stream, remote, op, queryVars, lockVars, workers>>

(* line 494 *)
ClearFlag ==
    /\ pc = "clear"
    /\ cancel_flag' = FALSE
    /\ pc' = "list"
    /\ UNCHANGED <<storeVars, file_limit, total_files, processed_files,
                   total_posts_added, is_downloading, files_to_process, i,
                   stream, remote, run, hist, op, queryVars, lockVars, workers>>

(* lines 496-512 *)
List ==
    /\ pc = "list"
    /\ \E ok \in BOOLEAN :
        LET jsonl_files == ApplyLimit(get_jsonl_files(remote, ok), file_limit)
            todo == SelectSeq(jsonl_files,
                              LAMBDA f : ~is_file_processed(ledger, f))
        IN /\ total_files' = Len(jsonl_files)
           /\ processed_files' = 0
           /\ files_to_process' = todo
           /\ IF todo = <<>>
              THEN /\ is_downloading' = FALSE
                   /\ pc' = "idle"
                   /\ i' = 0
                   /\ hist' = [hist EXCEPT ![run].listFailed = ~ok,
                                           ![run].ended = TRUE,
                                           ![run].endCount = Len(posts),
                                           ![run].doneReports = @ + 1,
                                           ![run].reports = Append(@, <<1, 1>>)]
              ELSE /\ is_downloading' = is_downloading
                   /\ pc' = "loop"
                   /\ i' = 1
                   /\ hist' = hist
    /\ UNCHANGED <<storeVars, cancel_flag, file_limit, total_posts_added,
                   stream, remote, run, op, queryVars, lockVars, workers>>

(* The per-file loop without the test of the cancel flag *)
LoopTopIgnoresCancel ==
    /\ pc = "loop"
    /\ IF i > Len(files_to_process)
       THEN pc' = "finish" /\ hist' = hist
       ELSE /\ pc' = "open"
            /\ hist' = [hist EXCEPT ![run].attempted = Append(@, CurrentFile)]
    /\ UNCHANGED <<storeVars, cancel_flag, file_limit, total_files,
                   processed_files, total_posts_added, is_downloading,
                   files_to_process, i, stream, remote, run, op, queryVars, lockVars, workers>>

(* line 521: i / len(files_to_process), for the n-th file *)
StartFraction(n, files) == <<n - 1, Len(files)>>

(* lines 595-596: (processed_files + downloaded / total_size) / total_files *)
ChunkFraction(done, downloaded, size, total) ==
    <<done * size + downloaded, size * total>>

(* lines 514-523: the top of the per-file loop; enumerate counts from 0 *)
LoopTop ==
    /\ pc = "loop"
    /\ IF i > Len(files_to_process)
       THEN pc' = "finish" /\ hist' = hist
       ELSE IF cancel_flag
       THEN pc' = "finish" /\ hist' = [hist EXCEPT ![run].cancelTop = TRUE]
       ELSE /\ pc' = "open"
            /\ hist' = [hist EXCEPT
                          ![run].attempted = Append(@, CurrentFile),
                          ![run].reports =
                              Append(@, StartFraction(i, files_to_process))]
    /\ UNCHANGED <<storeVars, cancel_flag, file_limit, total_files,
                   processed_files, total_posts_added, is_downloading,
                   files_to_process, i, stream, remote, run, op, queryVars, lockVars, workers>>

(* A failure of the request or of hf_hub_url ends the run *)
OpenAbortsRun ==
    /\ pc = "open"
    /\ \E outcome \in {"ok", "request failed", "url failed"} :
        IF outcome = "ok"
        THEN /\ pc' = "chunks"
             /\ stream' = [NoStream EXCEPT !.file = CurrentFile]
             /\ hist' = [hist EXCEPT ![run].opened = @ \cup {CurrentFile}]
        ELSE /\ pc' = "finish"
             /\ stream' = stream
             /\ hist' = [hist EXCEPT ![run].failed = @ \cup {CurrentFile}]
    /\ UNCHANGED <<storeVars, cancel_flag, file_limit, total_files,
                   processed_files, total_posts_added, is_downloading,
                   files_to_process, i, remote, run, op, queryVars, lockVars, workers>>

(* lines 525-531 and 556-566: hf_hub_url, then requests.get and            *)
(* raise_for_status.  A failure of the request is caught at line 615 and   *)
(* _stream_process_file returns posts_added; an exception of hf_hub_url is *)
(* caught at line 544 and the loop goes on to the next file.               *)
Open ==
    /\ pc = "open"
    /\ \E outcome \in {"ok", "ok, no content-length", "request failed",
                        "url failed"} :
        IF outcome = "url failed"
        THEN /\ pc' = "loop"
             /\ i' = i + 1
             /\ stream' = stream
             /\ hist' = [hist EXCEPT ![run].skipped = @ \cup {CurrentFile}]
        ELSE /\ stream' = [NoStream EXCEPT
                              !.file = CurrentFile,
                              !.base = Len(posts),
                              !.total_size =
                                  IF outcome = "ok"
                                  THEN ContentLength(Chunks(remote, CurrentFile))
                                  ELSE 0]
             /\ i' = i
             /\ IF outcome \in {"ok", "ok, no content-length"}
                THEN /\ pc' = "chunks"
                     /\ hist' = [hist EXCEPT ![run].opened = @ \cup {CurrentFile}]
                ELSE /\ pc' = "mark"
                     /\ hist' = [hist EXCEPT
                                    ![run].opened = @ \cup {CurrentFile},
                                    ![run].failed = @ \cup {CurrentFile}]
    /\ UNCHANGED <<storeVars, cancel_flag, file_limit, total_files,
                   processed_files, total_posts_added, is_downloading,
                   files_to_process, remote, run, op, queryVars, lockVars, workers>>

(* lines 570-600: one turn of "for chunk in response.iter_content(...)" *)
NextChunk ==
    /\ pc = "chunks"
    /\ LET chunks == Chunks(remote, stream.file) IN
       \E ok \in BOOLEAN :
          IF ~ok
          THEN \* the transport raises while reading: caught at line 615
               /\ pc' = "mark"
               /\ hist' = [hist EXCEPT ![run].failed = @ \cup {stream.file}]
               /\ UNCHANGED <<posts, stream>>
          ELSE IF stream.pos = Len(chunks)
          THEN \* the stream is exhausted
               /\ pc' = "tail"
               /\ UNCHANGED <<posts, stream, hist>>
          ELSE IF cancel_flag
          THEN \* line 571: break, the chunk just read is dropped
               /\ pc' = "tail"
               /\ stream' = [stream EXCEPT !.pos = @ + 1]
               /\ hist' = [hist EXCEPT ![run].cancelled = @ \cup {stream.file}]
               /\ UNCHANGED posts
          ELSE \E st \in {ProcessChunk(
                            [tbl |-> posts, buffer |-> stream.buffer,
                             batch |-> stream.batch,
                             posts_added |-> stream.posts_added,
                             handed |-> stream.handed, peak |-> stream.peak,
                             raised |-> FALSE],
                            chunks[stream.pos + 1])} :
                  /\ posts' = st.tbl
                  /\ stream' = [stream EXCEPT
                                  !.pos = @ + 1,
                                  !.buffer = st.buffer,
                                  !.batch = st.batch,
                                  !.posts_added = st.posts_added,
                                  !.handed = st.handed,
                                  !.peak = st.peak,
                                  !.downloaded = @ + Bytes(chunks[stream.pos + 1])]
                  /\ pc' = IF st.raised THEN "mark" ELSE "chunks"
                  /\ hist' = [hist EXCEPT
                                ![run].chunks = @ + 1,
                                ![run].raised =
                                    IF st.raised THEN @ \cup {stream.file} ELSE @,
                                ![run].reports =
                                    IF ~st.raised /\ stream.total_size > 0
                                    THEN Append(@, ChunkFraction(
                                             processed_files,
                                             stream'.downloaded,
                                             stream.total_size, total_files))
                                    ELSE @]
    /\ UNCHANGED <<ledger, cancel_flag, file_limit, total_files,
                   processed_files, total_posts_added, is_downloading,
                   files_to_process, i, remote, run, op, queryVars, lockVars, workers>>

(* lines 602-618 *)
StreamTail ==
    /\ pc = "tail"
    /\ \E st \in {ProcessTail([tbl |-> posts, buffer |-> stream.buffer,
                                batch |-> stream.batch,
                                posts_added |-> stream.posts_added,
                                handed |-> stream.handed, peak |-> stream.peak,
                                raised |-> FALSE])} :
          /\ posts' = st.tbl
          /\ stream' = [stream EXCEPT !.batch = st.batch,
                                      !.posts_added = st.posts_added,
                                      !.handed = st.handed,
                                      !.peak = st.peak]
          /\ hist' = [hist EXCEPT
                        ![run].raised =
                            IF st.raised THEN @ \cup {stream.file} ELSE @]
    /\ pc' = "mark"
    /\ UNCHANGED <<ledger, cancel_flag, file_limit, total_files,
                   processed_files, total_posts_added, is_downloading,
                   files_to_process, i, remote, run, op, queryVars, lockVars, workers>>

(* lines 534-542: back in download_and_process after the call returned *)
MarkDone ==
    /\ pc = "mark"
    /\ total_posts_added' = total_posts_added + stream.posts_added
    /\ ledger' = mark_file_processed(ledger, CurrentFile)
    /\ processed_files' = processed_files + 1
    /\ hist' = [hist EXCEPT ![run].marked = @ \cup (ledger' \cap {CurrentFile})]
    /\ i' = i + 1
    /\ stream' = NoStream
    /\ pc' = "loop"
    /\ UNCHANGED <<posts, cancel_flag, file_limit, total_files,
                   is_downloading, files_to_process, remote, run, op,
                   queryVars, lockVars, workers>>

(* lines 547-549 *)
Finish ==
    /\ pc = "finish"
    /\ is_downloading' = FALSE
    /\ hist' = [hist EXCEPT ![run].ended = TRUE, ![run].endCount = Len(posts),
                            ![run].doneReports = @ + 1,
                            ![run].reports = Append(@, <<1, 1>>),
                            ![run].message = Some(total_posts_added)]
    /\ pc' = "idle"
    /\ UNCHANGED <<storeVars, cancel_flag, file_limit, total_files,
                   processed_files, total_posts_added, files_to_process, i,
                   stream, remote, run, op, queryVars, lockVars, workers>>

(* DatasetDownloader.cancel, called by the controlling thread *)
Cancel ==
    /\ ~cancel_flag
    /\ cancel_flag' = TRUE
    /\ UNCHANGED <<storeVars, file_limit, total_files, processed_files,
                   total_posts_added, is_downloading, pc, files_to_process, i,
                   stream, remote, run, hist, op, queryVars, lockVars, workers>>

Next ==
    \/ Begin
    \/ ClearFlag
    \/ List
    \/ LoopTop
    \/ Open
    \/ NextChunk
    \/ StreamTail
    \/ MarkDone
    \/ Finish
    \/ Cancel

Spec == Init /\ [][Next]_vars

-----------------------------------------------------------------------------
(* Python string and number conversions used by the query compiler *)

UpperCase ==
    <<"A", "B", "C", "D", "E", "F", "G", "H", "I", "J", "K", "L", "M",
      "N", "O", "P", "Q", "R", "S", "T", "U", "V", "W", "X", "Y", "Z">>
LowerCase ==
    <<"a", "b", "c", "d", "e", "f", "g", "h", "i", "j", "k", "l", "m",
      "n", "o", "p", "q", "r", "s", "t", "u", "v", "w", "x", "y", "z">>

(* str.lower() on one character *)
Lower(c) ==
    IF \E k \in 1..Len(UpperCase) : UpperCase[k] = c
    THEN LowerCase[CHOOSE k \in 1..Len(UpperCase) : UpperCase[k] = c]
    ELSE c

LowerStr(s) == [k \in 1..Len(s) |-> Lower(s[k])]

Digits == <<"0", "1", "2", "3", "4", "5", "6", "7", "8", "9">>
IsDigit(c) == \E k \in 1..10 : Digits[k] = c
DigitVal(c) == (CHOOSE k \in 1..10 : Digits[k] = c) - 1
AllDigits(s) == \A k \in 1..Len(s) : IsDigit(s[k])

RECURSIVE DigitsVal(_, _)
DigitsVal(s, acc) ==
    IF s = <<>> THEN acc ELSE DigitsVal(Tail(s), acc * 10 + DigitVal(Head(s)))

RECURSIVE Pow10(_)
Pow10(n) == IF n = 0 THEN 1 ELSE 10 * Pow10(n - 1)

IsSpace(c) == c \in {" ", "\t", "\n"}

(* str.strip() *)
RECURSIVE LStripStr(_)
LStripStr(s) == IF s # <<>> /\ IsSpace(Head(s)) THEN LStripStr(Tail(s)) ELSE s

RECURSIVE RStripStr(_)
RStripStr(s) ==
    IF s # <<>> /\ IsSpace(s[Len(s)])
    THEN RStripStr(SubSeq(s, 1, Len(s) - 1)) ELSE s

StripStr(s) == RStripStr(LStripStr(s))

(* An optional sign in front of the rest *)
Sign(s) == IF s # <<>> /\ Head(s) = "-" THEN -1 ELSE 1
Unsigned(s) == IF s # <<>> /\ Head(s) \in {"-", "+"} THEN Tail(s) ELSE s

(* int(s): surrounding blanks, an optional sign, decimal digits; anything  *)
(* else is ValueError (ok = FALSE).                                        *)
PyInt(s) ==
    LET body == Unsigned(StripStr(s)) IN
    IF body # <<>> /\ AllDigits(body)
    THEN [ok |-> TRUE, v |-> Sign(StripStr(s)) * DigitsVal(body, 0)]
    ELSE [ok |-> FALSE, v |-> 0]

DotAt(s) == CHOOSE k \in 1..Len(s) : s[k] = "."

(* float(s) for the decimal forms digits, digits.digits, digits. and       *)
(* .digits with an optional sign: the value is num / den.                  *)
PyFloat(s) ==
    LET body == Unsigned(StripStr(s))
        sgn == Sign(StripStr(s))
    IN IF body # <<>> /\ AllDigits(body)
       THEN [ok |-> TRUE, num |-> sgn * DigitsVal(body, 0), den |-> 1]
       ELSE IF \E k \in 1..Len(body) : body[k] = "."
       THEN LET d == DotAt(body)
                whole == SubSeq(body, 1, d - 1)
                frac == SubSeq(body, d + 1, Len(body))
            IN IF AllDigits(whole) /\ AllDigits(frac) /\ Len(whole) + Len(frac) > 0
               THEN [ok |-> TRUE,
                     num |-> sgn * (DigitsVal(whole, 0) * Pow10(Len(frac))
                                    + DigitsVal(frac, 0)),
                     den |-> Pow10(Len(frac))]
               ELSE [ok |-> FALSE, num |-> 0, den |-> 1]
       ELSE [ok |-> FALSE, num |-> 0, den |-> 1]

(* int(x): truncation toward zero of num / den *)
Trunc(num, den) == IF num >= 0 THEN num \div den ELSE -((-num) \div den)

(* str(n), as an f-string formats an int *)
RECURSIVE NatToStr(_)
NatToStr(n) ==
    IF n < 10 THEN <<Digits[n + 1]>>
    ELSE Append(NatToStr(n \div 10), Digits[(n % 10) + 1])

IntToStr(n) == IF n < 0 THEN <<"-">> \o NatToStr(-n) ELSE NatToStr(n)

(* Values handed around by the compiler: a Python int or a Python str *)
IntV(n) == [t |-> "int", v |-> n]
StrV(s) == [t |-> "str", v |-> s]

-----------------------------------------------------------------------------
(* DatasetDatabase._parse_search_query *)

(* One turn of "for char in query" *)
ScanCharSplitsInQuotes(st, char) ==
    IF char = "\""
    THEN [st EXCEPT !.in_quotes = ~st.in_quotes]
    ELSE IF char = " "
    THEN IF st.current_term # <<>>
         THEN [st EXCEPT !.terms = Append(st.terms, st.current_term),
                         !.current_term = <<>>]
         ELSE st
    ELSE [st EXCEPT !.current_term = Append(st.current_term, char)]

ScanChar(st, char) ==
    IF char = "\""
    THEN [st EXCEPT !.in_quotes = ~st.in_quotes]
    ELSE IF char = " " /\ ~st.in_quotes
    THEN IF st.current_term # <<>>
         THEN [st EXCEPT !.terms = Append(st.terms, st.current_term),
                         !.current_term = <<>>]
         ELSE st
    ELSE [st EXCEPT !.current_term = Append(st.current_term, char)]

RECURSIVE ScanQuery(_, _)
ScanQuery(st, q) ==
    IF q = <<>> THEN st ELSE ScanQuery(ScanChar(st, Head(q)), Tail(q))

parse_search_query(q) ==
    LET st == ScanQuery([terms |-> <<>>, current_term |-> <<>>,
                         in_quotes |-> FALSE], q)
    IN IF st.current_term # <<>> THEN Append(st.terms, st.current_term)
       ELSE st.terms

-----------------------------------------------------------------------------
(* The SQL text is kept as the sequence of pieces appended to it; a piece  *)
(* records its text, what it tests and the number of '?' it holds.         *)

CmpPiece(column, cmp) ==
    [text |-> " AND " \o column \o " " \o cmp \o " ?", kind |-> "cmp",
     col |-> column, cmp |-> cmp, holes |-> 1]

NullOrNePiece(column) ==
    [text |-> " AND (" \o column \o " IS NULL OR " \o column \o " != ?)",
     kind |-> "nullor", col |-> column, cmp |-> "!=", holes |-> 1]

LikePiece ==
    [text |-> " AND tag_string LIKE ?", kind |-> "like",
     col |-> "tag_string", cmp |-> "LIKE", holes |-> 1]

NotLikePiece ==
    [text |-> " AND tag_string NOT LIKE ?", kind |-> "notlike",
     col |-> "tag_string", cmp |-> "NOT LIKE", holes |-> 1]

RECURSIVE OrJoin(_)
OrJoin(n) ==
    IF n = 1 THEN "tag_string LIKE ?"
    ELSE OrJoin(n - 1) \o " OR " \o "tag_string LIKE ?"

OrPiece(n) ==
    [text |-> " AND (" \o OrJoin(n) \o ")", kind |-> "or",
     col |-> "tag_string", cmp |-> "LIKE", holes |-> n]

(* f"%{x}%" *)
Contains(x) == <<"%">> \o x \o <<"%">>

-----------------------------------------------------------------------------
(* DatasetDatabase._add_numeric_condition.  acc holds sql and params;      *)
(* raised is set when int() raises ValueError outside the try block.       *)

AddCmp(acc, column, cmp, text) ==
    LET n == PyInt(text)
        withSql == [acc EXCEPT !.sql = Append(acc.sql, CmpPiece(column, cmp))]
    IN IF n.ok
       THEN [withSql EXCEPT !.params = Append(acc.params, IntV(n.v))]
       ELSE [withSql EXCEPT !.raised = TRUE]

(* The one-character prefixes tested before the two-character ones *)
add_numeric_condition_short_first(acc, column, value) ==
    IF value.t = "int"
    THEN [acc EXCEPT !.sql = Append(acc.sql, CmpPiece(column, "=")),
                     !.params = Append(acc.params, value)]
    ELSE LET s == value.v IN
         IF StartsWith(s, <<">">>) THEN AddCmp(acc, column, ">", SubSeq(s, 2, Len(s)))
         ELSE IF StartsWith(s, <<"<">>) THEN AddCmp(acc, column, "<", SubSeq(s, 2, Len(s)))
         ELSE LET n == PyInt(s)
                  withSql == [acc EXCEPT !.sql = Append(acc.sql, CmpPiece(column, "="))]
              IN IF n.ok
                 THEN [withSql EXCEPT !.params = Append(acc.params, IntV(n.v))]
                 ELSE withSql

add_numeric_condition(acc, column, value) ==
    IF value.t = "int"
    THEN [acc EXCEPT !.sql = Append(acc.sql, CmpPiece(column, "=")),
                     !.params = Append(acc.params, value)]
    ELSE LET s == value.v IN
         IF StartsWith(s, <<">", "=">>) THEN AddCmp(acc, column, ">=", SubSeq(s, 3, Len(s)))
         ELSE IF StartsWith(s, <<"<", "=">>) THEN AddCmp(acc, column, "<=", SubSeq(s, 3, Len(s)))
         ELSE IF StartsWith(s, <<">">>) THEN AddCmp(acc, column, ">", SubSeq(s, 2, Len(s)))
         ELSE IF StartsWith(s, <<"<">>) THEN AddCmp(acc, column, "<", SubSeq(s, 2, Len(s)))
         ELSE \* the placeholder is appended before int() is tried
              LET n == PyInt(s)
                  withSql == [acc EXCEPT !.sql = Append(acc.sql, CmpPiece(column, "="))]
              IN IF n.ok
                 THEN [withSql EXCEPT !.params = Append(acc.params, IntV(n.v))]
                 ELSE withSql

-----------------------------------------------------------------------------
(* DatasetDatabase._parse_filesize: None, an int, or operator + digits *)

multipliers ==
    << [suffix |-> <<"b">>, mult |-> 1],
       [suffix |-> <<"k", "b">>, mult |-> 1024],
       [suffix |-> <<"m", "b">>, mult |-> 1024 * 1024],
       [suffix |-> <<"g", "b">>, mult |-> 1024 * 1024 * 1024] >>

(* int(float(text) * mult), or ValueError *)
Scaled(text, mult) ==
    LET f == PyFloat(text)
    IN IF f.ok THEN Some(Trunc(f.num * mult, f.den)) ELSE None

(* The body of "if value.endswith(suffix)" *)
WithSuffix(value, suffix, mult) ==
    LET num == SubSeq(value, 1, Len(value) - Len(suffix))
        pre == IF StartsWith(num, <<">", "=">>) THEN <<">", "=">>
               ELSE IF StartsWith(num, <<"<", "=">>) THEN <<"<", "=">>
               ELSE IF StartsWith(num, <<">">>) THEN <<">">>
               ELSE IF StartsWith(num, <<"<">>) THEN <<"<">>
               ELSE <<>>
        n == Scaled(SubSeq(num, Len(pre) + 1, Len(num)), mult)
    IN IF n = None THEN None
       ELSE IF pre = <<>> THEN Some(IntV(Val(n)))
       ELSE Some(StrV(pre \o IntToStr(Val(n))))

(* The fallback after the loop: no suffix matched *)
NoSuffix(value) ==
    LET pre == IF StartsWith(value, <<">", "=">>) THEN <<">", "=">>
               ELSE IF StartsWith(value, <<"<", "=">>) THEN <<"<", "=">>
               ELSE IF StartsWith(value, <<">">>) THEN <<">">>
               ELSE IF StartsWith(value, <<"<">>) THEN <<"<">>
               ELSE <<>>
        n == PyInt(SubSeq(value, Len(pre) + 1, Len(value)))
    IN IF ~n.ok THEN None
       ELSE IF pre = <<>> THEN Some(IntV(n.v))
       ELSE Some(StrV(pre \o IntToStr(n.v)))

(* "for suffix, mult in multipliers.items()": the first suffix, in the     *)
(* dict's order, that the value ends with decides.                         *)
RECURSIVE SuffixLoop(_, _)
SuffixLoop(value, k) ==
    IF k > Len(multipliers) THEN NoSuffix(value)
    ELSE IF EndsWith(value, multipliers[k].suffix)
    THEN WithSuffix(value, multipliers[k].suffix, multipliers[k].mult)
    ELSE SuffixLoop(value, k + 1)

parse_filesize(value) == SuffixLoop(StripStr(LowerStr(value)), 1)

-----------------------------------------------------------------------------
(* DatasetDatabase.search_posts: the loop over the terms *)

HasChar(s, c) == \E k \in 1..Len(s) : s[k] = c
FirstChar(s, c) == CHOOSE k \in 1..Len(s) :
                       s[k] = c /\ \A j \in 1..(k - 1) : s[j] # c

(* term.split(':', 1) *)
KeyOf(term) == SubSeq(term, 1, FirstChar(term, ":") - 1)
ValueOf(term) == SubSeq(term, FirstChar(term, ":") + 1, Len(term))

(* str.replace('*', '%') *)
ReplaceStar(s) == [k \in 1..Len(s) |-> IF s[k] = "*" THEN "%" ELSE s[k]]

(* value.lower()[:1] *)
FirstLower(value) == SubSeq(LowerStr(value), 1, Min(1, Len(value)))

Push(acc, piece, param) ==
    [acc EXCEPT !.sql = Append(acc.sql, piece),
                !.params = Append(acc.params, param)]

(* Negated rating and type without the IS NULL alternative *)
NegatedTermStrict(acc, term) ==
    LET neg_term == Tail(term) IN
    IF HasChar(neg_term, ":")
    THEN LET key == LowerStr(KeyOf(neg_term))
             value == ValueOf(neg_term)
         IN IF key = <<"r", "a", "t", "i", "n", "g">>
            THEN Push(acc, CmpPiece("rating", "!="), StrV(FirstLower(value)))
            ELSE IF key = <<"t", "y", "p", "e">>
            THEN Push(acc, CmpPiece("file_ext", "!="), StrV(LowerStr(value)))
            ELSE Push(acc, NotLikePiece, StrV(Contains(neg_term)))
    ELSE Push(acc, NotLikePiece, StrV(Contains(neg_term)))

(* lines 259-277: a term that starts with '-' *)
NegatedTerm(acc, term) ==
    LET neg_term == Tail(term) IN
    IF HasChar(neg_term, ":")
    THEN LET key == LowerStr(KeyOf(neg_term))
             value == ValueOf(neg_term)
         IN IF key = <<"r", "a", "t", "i", "n", "g">>
            THEN Push(acc, NullOrNePiece("rating"), StrV(FirstLower(value)))
            ELSE IF key = <<"t", "y", "p", "e">>
            THEN Push(acc, NullOrNePiece("file_ext"), StrV(LowerStr(value)))
            ELSE Push(acc, NotLikePiece, StrV(Contains(neg_term)))
    ELSE Push(acc, NotLikePiece, StrV(Contains(neg_term)))

(* lines 280-323: a term that holds ':' *)
MetaTerm(acc, term) ==
    LET key == LowerStr(KeyOf(term))
        value == ValueOf(term)
    IN IF key = <<"r", "a", "t", "i", "n", "g">>
       THEN Push(acc, CmpPiece("rating", "="), StrV(FirstLower(value)))
       ELSE IF key = <<"s", "c", "o", "r", "e">>
       THEN add_numeric_condition(acc, "score", StrV(value))
       ELSE IF key \in {<<"f", "a", "v", "c", "o", "u", "n", "t">>, <<"f", "a", "v", "_", "c", "o", "u", "n", "t">>, <<"f", "a", "v", "o", "r", "i", "t", "e", "s">>}
       THEN add_numeric_condition(acc, "fav_count", StrV(value))
       ELSE IF key \in {<<"t", "y", "p", "e">>, <<"f", "i", "l", "e", "t", "y", "p", "e">>, <<"f", "i", "l", "e", "_", "t", "y", "p", "e">>}
       THEN Push(acc, CmpPiece("file_ext", "="), StrV(LowerStr(value)))
       ELSE IF key = <<"w", "i", "d", "t", "h">>
       THEN add_numeric_condition(acc, "image_width", StrV(value))
       ELSE IF key = <<"h", "e", "i", "g", "h", "t">>
       THEN add_numeric_condition(acc, "image_height", StrV(value))
       ELSE IF key \in {<<"f", "i", "l", "e", "s", "i", "z", "e">>, <<"f", "i", "l", "e", "_", "s", "i", "z", "e">>, <<"s", "i", "z", "e">>}
       THEN LET size_bytes == parse_filesize(value)
            IN IF size_bytes # None
               THEN add_numeric_condition(acc, "file_size", Val(size_bytes))
               ELSE acc
       ELSE IF key = <<"i", "d">>
       THEN add_numeric_condition(acc, "post_id", StrV(value))
       ELSE Push(acc, LikePiece, StrV(Contains(term)))

(* lines 250-335: one turn of "for term in terms" *)
CompileTerm(acc, term) ==
    IF StartsWith(term, <<"~">>)
    THEN [acc EXCEPT !.or_tags = Append(acc.or_tags, Tail(term))]
    ELSE IF StartsWith(term, <<"-">>) THEN NegatedTerm(acc, term)
    ELSE IF HasChar(term, ":") THEN MetaTerm(acc, term)
    ELSE IF HasChar(term, "*")
    THEN Push(acc, LikePiece, StrV(Contains(ReplaceStar(term))))
    ELSE Push(acc, LikePiece, StrV(Contains(term)))

(* An exception raised inside the loop leaves search_posts. *)
RECURSIVE CompileTerms(_, _)
CompileTerms(acc, terms) ==
    IF terms = <<>> \/ acc.raised THEN acc
    ELSE CompileTerms(CompileTerm(acc, Head(terms)), Tail(terms))

(* lines 337-343 *)
AddOrTags(acc) ==
    IF acc.or_tags = <<>> THEN acc
    ELSE [acc EXCEPT !.sql = Append(acc.sql, OrPiece(Len(acc.or_tags))),
                     !.params = acc.params \o
                         [k \in 1..Len(acc.or_tags) |->
                             StrV(Contains(acc.or_tags[k]))]]

(* lines 242-346: sql and params as handed to cursor.execute; "if query"   *)
(* skips the empty string.                                                 *)
Compile(q, limit) ==
    LET start == [sql |-> <<>>, params |-> <<>>, or_tags |-> <<>>,
                  raised |-> FALSE]
        acc == IF q = <<>> THEN start
               ELSE CompileTerms(start, parse_search_query(q))
    IN IF acc.raised THEN acc
       ELSE [AddOrTags(acc) EXCEPT !.params = Append(@, IntV(limit))]

-----------------------------------------------------------------------------
(* cursor.execute(sql, params): SQLite's evaluation of the WHERE clause *)

(* x LIKE pattern: % is any run of characters, _ any one character; ASCII  *)
(* letters compare without case.                                           *)
RECURSIVE Like(_, _)
Like(pattern, text) ==
    IF pattern = <<>> THEN text = <<>>
    ELSE IF Head(pattern) = "%"
    THEN Like(Tail(pattern), text) \/ (text # <<>> /\ Like(pattern, Tail(text)))
    ELSE IF text = <<>> THEN FALSE
    ELSE /\ Head(pattern) = "_" \/ Lower(Head(pattern)) = Lower(Head(text))
         /\ Like(Tail(pattern), Tail(text))

Column(row, name) ==
    CASE name = "post_id" -> row.post_id
      [] name = "tag_string" -> row.tag_string
      [] name = "rating" -> row.rating
      [] name = "file_ext" -> row.file_ext
      [] name = "score" -> row.score
      [] name = "fav_count" -> row.fav_count
      [] name = "image_width" -> row.image_width
      [] name = "image_height" -> row.image_height
      [] name = "file_size" -> row.file_size

(* A comparison with NULL is NULL, which WHERE treats as false.  A text    *)
(* parameter is never equal to an integer, and the other way round.        *)
Compare(cell, cmp, param) ==
    IF cell = None THEN FALSE
    ELSE IF param.t = "str"
    THEN CASE cmp = "=" -> Val(cell) = param.v
           [] cmp = "!=" -> Val(cell) # param.v
    ELSE CASE cmp = "=" -> Val(cell) = param.v
           [] cmp = "!=" -> Val(cell) # param.v
           [] cmp = ">" -> Val(cell) > param.v
           [] cmp = ">=" -> Val(cell) >= param.v
           [] cmp = "<" -> Val(cell) < param.v
           [] cmp = "<=" -> Val(cell) <= param.v

(* One piece of the WHERE clause, with the parameters bound to its '?' *)
PieceHolds(piece, bound, row) ==
    LET cell == Column(row, piece.col) IN
    CASE piece.kind = "cmp" -> Compare(cell, piece.cmp, bound[1])
      [] piece.kind = "nullor" -> cell = None \/ Compare(cell, "!=", bound[1])
      [] piece.kind = "like" -> cell # None /\ Like(bound[1].v, Val(cell))
      [] piece.kind = "notlike" -> cell # None /\ ~Like(bound[1].v, Val(cell))
      [] piece.kind = "or" ->
            \E k \in 1..Len(bound) : cell # None /\ Like(bound[k].v, Val(cell))

RECURSIVE Holes(_)
Holes(sql) == IF sql = <<>> THEN 0 ELSE Head(sql).holes + Holes(Tail(sql))

RECURSIVE WhereHolds(_, _, _)
WhereHolds(sql, params, row) ==
    IF sql = <<>> THEN TRUE
    ELSE /\ PieceHolds(Head(sql), SubSeq(params, 1, Head(sql).holes), row)
         /\ WhereHolds(Tail(sql),
                       SubSeq(params, Head(sql).holes + 1, Len(params)), row)

(* cursor.execute(sql, params) and fetchall: raised when the compilation   *)
(* raised, or when sqlite3 refuses a parameter list whose length is not    *)
(* the number of '?' (the WHERE pieces plus LIMIT ?).  rows are the rowids *)
(* selected; limit is far above the size of the table.                     *)
Execute(tbl, terms, c) ==
    IF c.raised \/ Holes(c.sql) + 1 # Len(c.params)
    THEN [state |-> "done", raised |-> TRUE, sql |-> c.sql,
          params |-> c.params, terms |-> terms, rows |-> {}]
    ELSE [state |-> "done", raised |-> FALSE, sql |-> c.sql,
          params |-> c.params, terms |-> terms,
          rows |-> {k \in 1..Len(tbl) : WhereHolds(c.sql, c.params, tbl[k])}]

(* search_posts: the statement is compiled once, then executed *)
search_posts(tbl, q, limit) ==
    CHOOSE r \in {Execute(tbl, parse_search_query(q), c) :
                     c \in {Compile(q, limit)}} : TRUE

DEFAULT_LIMIT == 50000

-----------------------------------------------------------------------------
(* Direct calls of the store's write operations, from any store state.    *)
(* The records are JSON objects as a decoded line may hold them.          *)

Datas ==
    { Obj(Some(1), Some("h1")), Obj(Some(2), Some("h1")), Obj(Some(3), None),
      Obj(Some(4), Some("")), Obj(None, Some("h2")) }

RECURSIVE SeqsUpTo(_, _)
SeqsUpTo(S, n) ==
    IF n = 0 THEN {<<>>}
    ELSE LET shorter == SeqsUpTo(S, n - 1)
         IN shorter \cup {Append(q, x) : q \in shorter, x \in S}

InitStore ==
    /\ posts = <<>>
    /\ ledger = {}
    /\ cancel_flag = FALSE
    /\ file_limit = 0
    /\ total_files = 0
    /\ processed_files = 0
    /\ total_posts_added = 0
    /\ is_downloading = FALSE
    /\ pc = "idle"
    /\ files_to_process = <<>>
    /\ i = 0
    /\ stream = NoStream
    /\ remote \in {r \in Remotes : r.content = 1}
    /\ run = 0
    /\ hist = <<>>
    /\ op = [name |-> "none", n |-> 0]
    /\ query = NoQuery
    /\ qres = NoResult
    /\ Unlocked
    /\ workers = <<>>

CallInsertPost ==
    /\ op.n < MaxCalls
    /\ \E data \in Datas :
        LET r == insert_post(posts, data)
        IN /\ posts' = r.tbl
           /\ op' = [name |-> "insert_post", n |-> op.n + 1, arg |-> data,
                     ret |-> r.ret, before |-> posts]
    /\ UNCHANGED <<ledger, dlVars, queryVars, lockVars, workers>>

CallInsertBatch ==
    /\ op.n < MaxCalls
    /\ \E ps \in SeqsUpTo(Datas, MaxBatch) :
        LET r == insert_batch(posts, ps)
        IN /\ posts' = r.tbl
           /\ op' = [name |-> "insert_batch", n |-> op.n + 1, arg |-> ps,
                     ret |-> r.inserted, before |-> posts]
    /\ UNCHANGED <<ledger, dlVars, queryVars, lockVars, workers>>

NextStore ==
    \/ CallInsertPost
    \/ CallInsertBatch

SpecStore == InitStore /\ [][NextStore]_vars

-----------------------------------------------------------------------------
(* The store shared by the UI thread and the ingestion worker.  A store    *)
(* method takes DatasetDatabase.lock ("with self.lock"), works on the      *)
(* connection and releases the lock; close() works on the connection       *)
(* without taking it.                                                      *)

(* The store methods each thread calls: the worker in download_and_process *)
(* and _stream_process_file, the UI thread in its callbacks.               *)
Methods(t) ==
    IF t = "worker"
    THEN {"is_file_processed", "insert_batch", "mark_file_processed"}
    ELSE {"search_posts", "get_total_count", "get_post_by_id"}

(* The thread calls a store method and reaches "with self.lock". *)
Call(t, m) ==
    /\ thread[t].at = "out"
    /\ calls[t] < MaxLockCalls
    /\ thread' = [thread EXCEPT ![t] = [method |-> m, at |-> "waiting"]]
    /\ UNCHANGED <<storeVars, dlVars, op, queryVars, workers, lock, conn, calls>>

(* threading.Lock: acquired by one thread at a time *)
Acquire(t) ==
    /\ thread[t].at = "waiting"
    /\ lock = "free"
    /\ lock' = t
    /\ thread' = [thread EXCEPT ![t].at = "inside"]
    /\ UNCHANGED <<storeVars, dlVars, op, queryVars, workers, conn, calls>>

(* The end of the with block: the method is done with the connection. *)
Return(t) ==
    /\ thread[t].at = "inside"
    /\ lock' = "free"
    /\ thread' = [thread EXCEPT ![t] = Out]
    /\ calls' = [calls EXCEPT ![t] = @ + 1]
    /\ UNCHANGED <<storeVars, dlVars, op, queryVars, workers, conn>>

(* JsonViewerApp.run, lines 1110-1111: self.downloader.cancel(), then      *)
(* self.db.close() is entered; the worker thread is not joined.            *)
Shutdown ==
    /\ thread["ui"].at = "out"
    /\ conn = "open"
    /\ cancel_flag' = TRUE
    /\ thread' = [thread EXCEPT !["ui"] = [method |-> "close", at |-> "closing"]]
    /\ UNCHANGED <<storeVars, file_limit, total_files, processed_files,
                   total_posts_added, is_downloading, pc, files_to_process, i,
                   stream, remote, run, hist, op, queryVars, workers, lock, conn, calls>>

(* DatasetDatabase.close, line 453: self.conn.close() *)
Close ==
    /\ thread["ui"].at = "closing"
    /\ conn' = "closed"
    /\ thread' = [thread EXCEPT !["ui"].at = "closed"]
    /\ UNCHANGED <<storeVars, dlVars, op, queryVars, workers, lock, calls>>

InitLock == InitStore

NextLock ==
    \/ \E t \in Threads : \E m \in Methods(t) : Call(t, m)
    \/ \E t \in Threads : Acquire(t)
    \/ \E t \in Threads : Return(t)
    \/ Shutdown
    \/ Close

SpecLock == InitLock /\ [][NextLock]_vars

-----------------------------------------------------------------------------
(* Searches: a query string handed to search_posts over a stored table *)

QRow(id, tags, rating, ext, score, fav, width, height, size) ==
    [post_id |-> Some(id), md5 |-> None, tag_string |-> Some(tags),
     rating |-> Some(rating), file_ext |-> Some(ext), score |-> Some(score),
     fav_count |-> Some(fav), image_width |-> Some(width),
     image_height |-> Some(height), file_size |-> Some(size)]

SampleRows ==
    << QRow(1, <<"f", "o", "x">>, <<"s">>, <<"p", "n", "g">>, 9, 0, 10, 20, 1048576),
       QRow(2, <<"c", "a", "t", " ", "w", "o", "l", "f">>, <<"e">>, <<"j", "p", "g">>, 10, 5, 5, 5, 1048577),
       Row(Obj(Some(3), None)),
       QRow(4, <<"c", "a", "t", "e", "g", "o", "r", "y", " ", "w", "i", "l", "d", "c", "a", "t">>, <<"q">>, <<"g", "i", "f">>, 11, 6, 4, 6, 1024),
       QRow(5, <<"f", "o", "x", " ", "w", "o", "l", "f">>, <<"s">>, <<"p", "n", "g">>, 5, 10, 0, 1, 1),
       QRow(6, <<"d", "o", "g">>, <<"e">>, <<"p", "n", "g">>, 4, 4, 6, 5, 1073741824),
       QRow(7, <<"b", "i", "r", "d">>, <<"q">>, <<"j", "p", "g">>, -5, 11, 11, 11, 1073741825),
       QRow(8, <<"b", "a", "t">>, <<"s">>, <<"j", "p", "g">>, 6, 9, 9, 9, 0),
       QRow(9, <<"o", "w", "l">>, <<"e">>, <<"g", "i", "f">>, 0, 1, 1, 1, 1025),
       QRow(10, <<"e", "l", "k">>, <<"q">>, <<"p", "n", "g">>, 1, 2, 2, 2, 2),
       QRow(11, <<"a", "n", "t">>, <<"s">>, <<"g", "i", "f">>, 2, 3, 3, 3, 5120),
       QRow(12, <<"b", "e", "e">>, <<"e">>, <<"j", "p", "g">>, 3, 7, 7, 7, 5242881),
       QRow(13, <<"w", "i", "l", "d", "c", "a", "t">>, <<"s">>, <<"p", "n", "g">>, 7, 8, 8, 8, 3),
       QRow(14, <<"c", "a", "t", "e", "g", "o", "r", "y">>, <<"q">>, <<"g", "i", "f">>, 8, 12, 12, 12, 4) >>

Term(key, value) == key \o <<":">> \o value

(* Two query parts separated by one space; an empty part adds nothing. *)
Join(a, b) ==
    IF a = <<>> THEN b ELSE IF b = <<>> THEN a ELSE a \o <<" ">> \o b

NumKeys == {<<"s", "c", "o", "r", "e">>, <<"f", "a", "v", "c", "o", "u", "n", "t">>, <<"f", "a", "v", "_", "c", "o", "u", "n", "t">>, <<"f", "a", "v", "o", "r", "i", "t", "e", "s">>, <<"w", "i", "d", "t", "h">>, <<"h", "e", "i", "g", "h", "t">>, <<"i", "d">>}

Operators == {<<>>, <<">">>, <<">", "=">>, <<"<">>, <<"<", "=">>}
NumNumbers == {-5, 5, 10}

NumValues ==
    {o \o IntToStr(n) : o \in Operators, n \in NumNumbers} \cup
    {<<"5">>, <<">", "5">>, <<">", "=", "1", "0">>, <<"<", "1", "0">>, <<"<", "=", "5">>, <<"-", "5">>,
     <<">", ">", "5">>, <<">", "a", "b", "c">>, <<"a", "b", "c">>, <<">", "=">>, <<"<", "x">>, <<"<", "=", ">", "5">>, <<>>}

Contexts == {<<>>, <<"f", "o", "x">>, <<"s", "c", "o", "r", "e", ":", ">", "=", "1", "0">>, <<"~", "c", "a", "t", " ", "~", "f", "o", "x">>}

NumericQueries ==
    {Join(ctx, Term(key, v)) : ctx \in Contexts, key \in NumKeys, v \in NumValues}
    \cup
    {Join(Term(key, v), ctx) : ctx \in Contexts, key \in NumKeys, v \in NumValues}

SizeKeys == {<<"f", "i", "l", "e", "s", "i", "z", "e">>, <<"f", "i", "l", "e", "_", "s", "i", "z", "e">>, <<"s", "i", "z", "e">>}
SizeNumbers == {0, 1, 5}
Suffixes == {<<"b">>, <<"k", "b">>, <<"m", "b">>, <<"g", "b">>, <<"B">>, <<"K", "B">>, <<"M", "B">>, <<"G", "B">>, <<"K", "b">>, <<"m", "B">>}

(* The multiplier the suffix stands for, whatever its letter case *)
Multiplier(suffix) ==
    LET low == LowerStr(suffix)
        k == CHOOSE k \in 1..Len(multipliers) : multipliers[k].suffix = low
    IN multipliers[k].mult

(* n * Multiplier(suffix) within the 32-bit integers of the checker *)
Fits(n, suffix) == n <= 2147483647 \div Multiplier(suffix)

SizeQueries ==
    {Term(key, o \o IntToStr(ns[1]) \o ns[2]) :
        key \in SizeKeys, o \in Operators,
        ns \in {p \in SizeNumbers \X (Suffixes \cup {<<>>}) :
                   p[2] = <<>> \/ Fits(p[1], p[2])}}
    \cup {Term(<<"f", "i", "l", "e", "s", "i", "z", "e">>, <<"1", ".", "5", "b">>), Term(<<"s", "i", "z", "e">>, <<">", "x">>), Term(<<"s", "i", "z", "e">>, <<"k", "b">>)}

TokenChars == {"a", " ", "\"", "\t", "\n"}

TokenizerQueries ==
    SeqsUpTo(TokenChars, MaxQueryLen)
    \cup {<<"\"", "r", "e", "d", " ", "f", "o", "x", "\"", " ", "w", "o", "l", "f">>, <<"a", "\t", "b", " ", "\"", "c", " ", "d", "\"">>, <<"c", "a", "t", "*", " ", "-", "d", "o", "g", " ", "r", "a", "t", "i", "n", "g", ":", "S">>,
          <<"-", "r", "a", "t", "i", "n", "g", ":", "e", " ", "t", "y", "p", "e", ":", "P", "N", "G">>, <<"~", "f", "o", "x", " ", "b", "a", "r", " ", "~", "w", "o", "l", "f">>}

RECURSIVE JoinAll(_)
JoinAll(tokens) ==
    IF tokens = <<>> THEN <<>> ELSE Join(Head(tokens), JoinAll(Tail(tokens)))

(* Queries of up to MaxTokens tokens, ~ tokens among other predicates *)
OrTokens ==
    {<<"~", "f", "o", "x">>, <<"~", "w", "o", "l", "f">>, <<"~", "d", "o", "g">>, <<"~", "c", "_", "t">>, <<"w", "o", "l", "f">>, <<"b", "a", "r">>, <<"-", "c", "a", "t">>, <<"s", "c", "o", "r", "e", ":", ">", "=", "5">>}
OrTokenLists == SeqsUpTo(OrTokens, MaxTokens) \ {<<>>}
OrQueries == {JoinAll(tokens) : tokens \in OrTokenLists}

(* Negated tokens: -rating:V, -type:V, and '-' before anything else *)
RatingValues == {<<>>, <<"s">>, <<"S">>, <<"e">>, <<"q">>, <<"s", "a", "f", "e">>, <<"E", "x", "p", "l", "i", "c", "i", "t">>, <<"x">>}
TypeValues == {<<>>, <<"p", "n", "g">>, <<"P", "N", "G">>, <<"j", "p", "g">>, <<"G", "i", "f">>, <<"p", "n">>, <<"w", "e", "b", "m">>}
NegRemainders ==
    {<<>>, <<"c", "a", "t">>, <<"C", "a", "t">>, <<"w", "o", "l", "f">>, <<"f", "o", "x", " ", "w", "o", "l", "f">>, <<"s", "c", "o", "r", "e", ":", "5">>, <<"i", "d", ":", "4">>, <<"f", "o", "o", ":", "b", "a", "r">>,
     <<"r", "a", "t", "i", "n", "g">>, <<"r", "a", "t", "i", "n", "g", "s", ":", "e">>, <<":">>, <<"z", "e", "b", "r", "a">>, <<"c", "_", "t">>, <<"%">>, <<"f", "%", "x">>}

NegQueries ==
    {<<"-">> \o Term(<<"r", "a", "t", "i", "n", "g">>, v) : v \in RatingValues}
    \cup {<<"-">> \o Term(<<"t", "y", "p", "e">>, v) : v \in TypeValues}
    \cup {<<"\"", "-">> \o r \o <<"\"">> : r \in NegRemainders}

(* Tokens with '*', and the plain tokens they are compared with *)
WildTokens ==
    {<<"c", "a", "t", "*">>, <<"*", "c", "a", "t">>, <<"*", "c", "a", "t", "*">>, <<"c", "a", "t">>, <<"c", "*", "t">>, <<"c", "a", "*", "y">>, <<"w", "*", "l", "*", "f">>, <<"f", "*", "x", "*", "w">>, <<"w", "o", "l", "f", "*", "f", "o", "x">>,
     <<"*">>, <<"*", "*">>, <<"C", "A", "T", "*">>, <<"o", "*">>, <<"*", "z", "e", "b", "r", "a">>, <<"c", "_", "t", "*">>, <<"*", "c", "_", "t">>}

(* Tokens of every kind, two or more of each kind that differ in the tag   *)
(* text or in the value; some hold SQL of their own                        *)
ValueTokens ==
    {<<"f", "o", "x">>, <<"x", "'", ";", "-", "-">>, <<"1", "=", "1", ")", ";">>, <<"~", "f", "o", "x">>, <<"~", "a", "'", "b">>, <<"-", "c", "a", "t">>, <<"-", "x", "'">>,
     <<"-", "r", "a", "t", "i", "n", "g", ":", "e">>, <<"-", "r", "a", "t", "i", "n", "g", ":", "'">>, <<"-", "t", "y", "p", "e", ":", "p", "n", "g">>, <<"-", "t", "y", "p", "e", ":", ";">>,
     <<"r", "a", "t", "i", "n", "g", ":", "s">>, <<"r", "a", "t", "i", "n", "g", ":", "'">>, <<"t", "y", "p", "e", ":", "p", "n", "g">>, <<"t", "y", "p", "e", ":", "'", ")">>,
     <<"s", "c", "o", "r", "e", ":", ">", "5">>, <<"s", "c", "o", "r", "e", ":", ">", "1", "0">>, <<"i", "d", ":", "5">>, <<"i", "d", ":", "-", "5">>, <<"w", "i", "d", "t", "h", ":", "<", "=", "5">>, <<"w", "i", "d", "t", "h", ":", "<", "=", "1", "0">>,
     <<"s", "i", "z", "e", ":", "1", "b">>, <<"s", "i", "z", "e", ":", "1", "k", "b">>, <<"s", "i", "z", "e", ":", "5">>, <<"s", "i", "z", "e", ":", ">", "5">>, <<"s", "i", "z", "e", ":", ">", "1">>,
     <<"f", "o", "o", ":", "b", "a", "r">>, <<"f", "o", "o", ":", "'">>, <<"c", "a", "t", "*">>, <<"c", "*", "'">>}
ValueTokenLists ==
    {<<a>> : a \in ValueTokens} \cup {<<a, b>> : a, b \in ValueTokens}
ValueQueries == {JoinAll(tokens) : tokens \in ValueTokenLists}

Queries ==
    (NumericQueries \cup SizeQueries \cup TokenizerQueries \cup OrQueries
        \cup NegQueries \cup WildTokens \cup ValueQueries) \ {<<>>}

InitQuery ==
    /\ posts = SampleRows
    /\ ledger = {}
    /\ cancel_flag = FALSE
    /\ file_limit = 0
    /\ total_files = 0
    /\ processed_files = 0
    /\ total_posts_added = 0
    /\ is_downloading = FALSE
    /\ pc = "idle"
    /\ files_to_process = <<>>
    /\ i = 0
    /\ stream = NoStream
    /\ remote \in {r \in Remotes : r.content = 1}
    /\ run = 0
    /\ hist = <<>>
    /\ op = NoOp
    /\ query \in Queries
    /\ qres = NoResult
    /\ Unlocked
    /\ workers = <<>>

(* JsonViewerApp.load_list: self.db.search_posts(query) *)
Search ==
    /\ qres = NoResult
    /\ qres' = search_posts(posts, query, DEFAULT_LIMIT)
    /\ UNCHANGED <<storeVars, dlVars, op, query, lockVars, workers>>

NextQuery == Search

SpecQuery == InitQuery /\ [][NextQuery]_vars

-----------------------------------------------------------------------------
(* Properties of the ingestor *)

RunOver == pc = "idle" /\ run > 0

(* A run that went to completion: the listing succeeded, no cancellation   *)
(* was observed, no fetch failed and no file was skipped.                  *)
CleanRun(r) ==
    /\ hist[r].ended
    /\ hist[r].cancelled = {}
    /\ hist[r].failed = {}
    /\ hist[r].skipped = {}
    /\ ~hist[r].listFailed
    /\ ~hist[r].cancelTop

(* _stream_process_file on a whole stream, with no cancellation and no     *)
(* transport failure.                                                      *)
RECURSIVE StreamAll(_, _)
StreamAll(st, chunks) ==
    IF chunks = <<>> \/ st.raised THEN st
    ELSE StreamAll(ProcessChunk(st, Head(chunks)), Tail(chunks))

Uninterrupted(tbl, chunks) ==
    LET st == StreamAll([tbl |-> tbl, buffer |-> <<>>, batch |-> <<>>,
                         posts_added |-> 0, handed |-> <<>>, peak |-> 0,
                         raised |-> FALSE], chunks)
    IN IF st.raised THEN st.tbl ELSE ProcessTail(st).tbl

(* The table holds the row, or a row with the same non-empty hash. *)
Holds(tbl, row) ==
    \E k \in 1..Len(tbl) :
        tbl[k] = row \/ (Truthy(row.md5) /\ tbl[k].md5 = row.md5)

(* C1: when the cancel flag was observed set inside the chunk loop of      *)
(* file F, the run does not call mark_file_processed(F) and F is not in    *)
(* the ledger when the run ends.                                           *)
C1_CancelledFileNotMarked ==
    RunOver =>
        \A f \in hist[run].cancelled :
            f \notin hist[run].marked /\ ~is_file_processed(ledger, f)

(* C2: when the streaming fetch of file F failed during the run (opening   *)
(* the stream or reading chunks), the run did not add F to the ledger:     *)
(* has_processed(F) is false after the run.                                *)
C2_FailedFileNotMarked ==
    RunOver =>
        \A f \in hist[run].failed :
            f \notin hist[run].marked /\ ~is_file_processed(ledger, f)

(* C3: after a run cancelled while streaming F, a following run over the   *)
(* same files, itself run to completion, fetches F again, leaves no two    *)
(* rows with one content hash, and the store then holds every record of F  *)
(* that an uninterrupted run would have stored.                            *)
C3_CancelledFileResumed ==
    (RunOver /\ run >= 2 /\ CleanRun(run)) =>
        \A f \in hist[run - 1].cancelled :
            /\ f \in hist[run].opened
            /\ \A j, k \in 1..Len(posts) :
                 (j # k /\ Truthy(posts[j].md5)) => posts[j].md5 # posts[k].md5
            /\ LET full == Uninterrupted(<<>>, Chunks(remote, f))
               IN \A k \in 1..Len(full) : Holds(posts, full[k])

(* C4: two runs to completion over the same files and file limit leave     *)
(* the same total record count as the first of them alone.                 *)
C4_SecondRunAddsNothing ==
    \A r \in 2..Len(hist) :
        (CleanRun(r - 1) /\ CleanRun(r)) =>
            hist[r].endCount = hist[r - 1].endCount

(* Two completed runs, the first of which stored a record without a hash   *)
(* (which no uniqueness constraint would keep from being stored again).    *)
C4_Witness ==
    /\ RunOver /\ run >= 2
    /\ CleanRun(run - 1) /\ CleanRun(run)
    /\ hist[run - 1].marked # {}
    /\ \E k \in 1..hist[run - 1].endCount : posts[k].md5 = None
    /\ get_total_count(posts) = hist[run].endCount

-----------------------------------------------------------------------------
(* Properties of the store *)

DuplicateIn(tbl, md5) ==
    Truthy(md5) /\ \E k \in 1..Len(tbl) : tbl[k].md5 = md5

(* C5: no two persisted records have the same non-empty content hash. *)
C5_UniqueHashes ==
    \A j, k \in 1..Len(posts) :
        (j # k /\ Truthy(posts[j].md5)) => posts[j].md5 # posts[k].md5

(* A batch insert met a record whose hash was already persisted. *)
C5_Witness ==
    /\ op.name = "insert_batch"
    /\ \E k \in 1..Len(op.arg) : DuplicateIn(op.before, op.arg[k].md5)
    /\ Len(posts) > Len(op.before)

(* C6 (for records that carry an id): insert_post returns false and leaves *)
(* the store unchanged exactly when a persisted record has the same        *)
(* non-empty hash; otherwise, also when the hash is absent or the empty    *)
(* string, it returns true and the store gains exactly that record.        *)
C6_InsertPostContract ==
    (op.name = "insert_post" /\ op.arg.id # None) =>
        IF DuplicateIn(op.before, op.arg.md5)
        THEN op.ret = FALSE /\ posts = op.before
        ELSE op.ret = TRUE /\ posts = Append(op.before, Row(op.arg))

(* The rows the batch contract asks for: a record is skipped when its      *)
(* non-empty hash is in the store or earlier in the batch, and persisted   *)
(* otherwise.                                                              *)
RECURSIVE BatchContract(_, _)
BatchContract(tbl, ps) ==
    IF ps = <<>> THEN tbl
    ELSE IF DuplicateIn(tbl, Head(ps).md5) THEN BatchContract(tbl, Tail(ps))
    ELSE BatchContract(Append(tbl, Row(Head(ps))), Tail(ps))

(* C7 (for batches whose records all carry an id): insert_batch returns    *)
(* the number of records it newly persisted, skips the records whose hash  *)
(* is already in the store or earlier in the batch, persists every other   *)
(* record, and keeps every record that was in the store before.            *)
C7_BatchContract ==
    (op.name = "insert_batch" /\ \A k \in 1..Len(op.arg) : op.arg[k].id # None) =>
        /\ op.ret = Len(posts) - Len(op.before)
        /\ SubSeq(posts, 1, Len(op.before)) = op.before
        /\ posts = BatchContract(op.before, op.arg)

-----------------------------------------------------------------------------
(* Properties of the query compiler *)

Searched == qres.state = "done"

(* The value of a numeric term with its operator prefix taken off *)
StripOperator(v) ==
    IF StartsWith(v, <<">", "=">>) \/ StartsWith(v, <<"<", "=">>) THEN SubSeq(v, 3, Len(v))
    ELSE IF StartsWith(v, <<">">>) \/ StartsWith(v, <<"<">>) THEN SubSeq(v, 2, Len(v))
    ELSE v

Malformed(v) == ~PyInt(StripOperator(v)).ok

(* C8: a numeric term (score, favcount, width, height, id) whose value     *)
(* does not parse as an integer after its operator prefix is stripped      *)
(* never makes search_posts raise; it adds no predicate, and the query     *)
(* returns the records of the query without that term.                     *)
C8_MalformedNumericDropped ==
    Searched =>
        \A ctx \in Contexts, key \in NumKeys,
           v \in {x \in NumValues : Malformed(x)} :
            query \in {Join(ctx, Term(key, v)), Join(Term(key, v), ctx)} =>
                /\ ~qres.raised
                /\ qres.sql = Compile(ctx, DEFAULT_LIMIT).sql
                /\ qres.rows = search_posts(posts, ctx, DEFAULT_LIMIT).rows

(* The comparison an operator prefix stands for *)
Comparison(o) == IF o = <<>> THEN "="
                 ELSE IF o = <<">">> THEN ">"
                 ELSE IF o = <<">", "=">> THEN ">="
                 ELSE IF o = <<"<">> THEN "<"
                 ELSE "<="

(* C9: filesize:<op><n><suffix>, for every operator prefix, non-negative   *)
(* integer n and suffix b, kb, mb, gb in any letter case, compiles to the  *)
(* predicate file_size <op> n * m with m = 1, 1024, 1024^2, 1024^3, and    *)
(* selects exactly the records that satisfy it.                            *)
C9_SizeSuffixGrammar ==
    Searched =>
        \A key \in SizeKeys, o \in Operators, n \in SizeNumbers,
           suf \in Suffixes :
            (Fits(n, suf) /\ query = Term(key, o \o IntToStr(n) \o suf)) =>
                /\ ~qres.raised
                /\ qres.sql = <<CmpPiece("file_size", Comparison(o))>>
                /\ qres.params = <<IntV(n * Multiplier(suf)), IntV(DEFAULT_LIMIT)>>
                /\ qres.rows =
                     {k \in 1..Len(posts) :
                         /\ posts[k].file_size # None
                         /\ Compare(posts[k].file_size, Comparison(o),
                                    IntV(n * Multiplier(suf)))}

(* The tokens of a query, stated over its positions: a double quote opens  *)
(* or closes a quoted part and belongs to no token; IsSep tells which      *)
(* characters separate tokens outside quotes; two kept positions are in    *)
(* one token when no separator lies between them.                          *)
QuoteOpen(q, k) == Cardinality({j \in 1..(k - 1) : q[j] = "\""}) % 2 = 1

SepAt(q, k, IsSep(_)) == IsSep(q[k]) /\ ~QuoteOpen(q, k)

Kept(q, IsSep(_)) ==
    {k \in 1..Len(q) : q[k] # "\"" /\ ~SepAt(q, k, IsSep)}

Together(q, j, k, IsSep(_)) == \A m \in j..k : ~SepAt(q, m, IsSep)

RECURSIVE Ascending(_)
Ascending(S) ==
    IF S = {} THEN <<>>
    ELSE LET m == CHOOSE x \in S : \A y \in S : x <= y
         IN <<m>> \o Ascending(S \ {m})

TokensOf(q, IsSep(_)) ==
    LET kept == Kept(q, IsSep)
        starts == Ascending({k \in kept :
                     \A j \in kept : j < k => ~Together(q, j, k, IsSep)})
        members(s) == Ascending({k \in kept : k >= s /\ Together(q, s, k, IsSep)})
    IN [n \in 1..Len(starts) |->
           [j \in 1..Len(members(starts[n])) |-> q[members(starts[n])[j]]]]

IsBlank(c) == c = " "

WellFormedTerms(terms) ==
    \A n \in 1..Len(terms) : terms[n] # <<>> /\ ~HasChar(terms[n], "\"")

(* C10, as stated: the query is split on every whitespace character        *)
(* (space, tab, newline) outside double quotes; whitespace inside quotes   *)
(* stays in its token; no token is empty or holds a double quote.          *)
C10_SplitsOnWhitespace ==
    Searched =>
        qres.terms = TokensOf(query, IsSpace) /\ WellFormedTerms(qres.terms)

(* C10, amended: the query is split on every space character outside       *)
(* double quotes, and on nothing else: a tab or a newline stays in its     *)
(* token, as does any whitespace inside quotes; no token is empty or holds *)
(* a double quote.                                                         *)
C10_SplitsOnSpaces ==
    Searched =>
        qres.terms = TokensOf(query, IsBlank) /\ WellFormedTerms(qres.terms)

(* A query split in two, one token keeping a quoted space and one a tab *)
C10_Witness ==
    /\ Searched
    /\ Len(qres.terms) = 2
    /\ \E n \in 1..2 : HasChar(qres.terms[n], " ")
    /\ \E n \in 1..2 : HasChar(qres.terms[n], "\t")

-----------------------------------------------------------------------------
(* The column a numeric key stands for *)
ColumnOf(key) ==
    IF key = <<"s", "c", "o", "r", "e">> THEN "score"
    ELSE IF key \in {<<"f", "a", "v", "c", "o", "u", "n", "t">>, <<"f", "a", "v", "_", "c", "o", "u", "n", "t">>, <<"f", "a", "v", "o", "r", "i", "t", "e", "s">>} THEN "fav_count"
    ELSE IF key = <<"w", "i", "d", "t", "h">> THEN "image_width"
    ELSE IF key = <<"h", "e", "i", "g", "h", "t">> THEN "image_height"
    ELSE "post_id"

(* a <op> b on integers, for an operator prefix *)
Related(a, o, b) ==
    IF o = <<>> THEN a = b
    ELSE IF o = <<">">> THEN a > b
    ELSE IF o = <<">", "=">> THEN a >= b
    ELSE IF o = <<"<">> THEN a < b
    ELSE a <= b

(* C11: for each numeric key (score, favcount, fav_count, favorites,       *)
(* width, height, id), operator prefix (>=, <=, >, <, none) and integer n, *)
(* the term key:<op>n compiles to the one predicate column <op> n (= for   *)
(* no prefix) with parameter n, and selects exactly the records whose      *)
(* column is not null and stands in that relation to n.                    *)
C11_NumericGrammar ==
    Searched =>
        \A key \in NumKeys, o \in Operators, n \in NumNumbers :
            query = Term(key, o \o IntToStr(n)) =>
                /\ ~qres.raised
                /\ qres.sql = <<CmpPiece(ColumnOf(key), Comparison(o))>>
                /\ qres.params = <<IntV(n), IntV(DEFAULT_LIMIT)>>
                /\ qres.rows =
                     {k \in 1..Len(posts) :
                         /\ Column(posts[k], ColumnOf(key)) # None
                         /\ Related(Val(Column(posts[k], ColumnOf(key))), o, n)}

(* score:>=10 has selected the records of score 10 and 11, not that of 9 *)
C11_Witness ==
    /\ Searched
    /\ query = <<"s", "c", "o", "r", "e", ":", ">", "=", "1", "0">>
    /\ \E j, k \in qres.rows : posts[j].score = Some(10) /\ posts[k].score = Some(11)
    /\ \E k \in 1..Len(posts) : posts[k].score = Some(9) /\ k \notin qres.rows

-----------------------------------------------------------------------------
(* text contains part as a substring, ASCII letters compared without case *)
TagContains(text, part) ==
    \E k \in 0..(Len(text) - Len(part)) :
        \A j \in 1..Len(part) : Lower(text[k + j]) = Lower(part[j])

IsOrToken(t) == t # <<>> /\ t[1] = "~"
IsOtherToken(t) == ~IsOrToken(t)

(* C12: the ~ tokens of a query form one OR-group wherever they stand: the *)
(* records selected are those that satisfy every other predicate of the    *)
(* query and, when there is a ~ token, whose tag string contains at least  *)
(* one of the ~ tokens' tags; the group is one parenthesised disjunction.  *)
C12_OneOrGroup ==
    Searched =>
        \A tokens \in OrTokenLists :
            query = JoinAll(tokens) =>
                LET members == SelectSeq(tokens, IsOrToken)
                    others == SelectSeq(tokens, IsOtherToken)
                    groups == {k \in 1..Len(qres.sql) : qres.sql[k].kind = "or"}
                IN /\ ~qres.raised
                   /\ Cardinality(groups) = IF members = <<>> THEN 0 ELSE 1
                   /\ qres.rows =
                        {k \in search_posts(posts, JoinAll(others), DEFAULT_LIMIT).rows :
                            members # <<>> =>
                                /\ posts[k].tag_string # None
                                /\ \E m \in 1..Len(members) :
                                     TagContains(Val(posts[k].tag_string),
                                                 Tail(members[m]))}

-----------------------------------------------------------------------------
(* value.lower()[:1] and value.lower(), as the claim names them *)
LowerFirst(v) == IF v = <<>> THEN <<>> ELSE <<Lower(v[1])>>
LowerAll(v) == [k \in 1..Len(v) |-> Lower(v[k])]

(* C13: -rating:V selects exactly the records whose rating is null or      *)
(* differs from the lower-cased first character of V; -type:V exactly      *)
(* those whose file extension is null or differs from lower-cased V; a '-' *)
(* token with another key, or with no ':', selects only records whose tag  *)
(* string does not contain the remainder of the token, whatever the letter *)
(* case (and, when the remainder holds no '_' or '%', every record with a  *)
(* tag string that does not contain it).                                   *)
C13_NegatedTerms ==
    Searched =>
        /\ \A v \in RatingValues :
             query = <<"-">> \o Term(<<"r", "a", "t", "i", "n", "g">>, v) =>
                /\ ~qres.raised
                /\ qres.rows = {k \in 1..Len(posts) :
                                   \/ posts[k].rating = None
                                   \/ Val(posts[k].rating) # LowerFirst(v)}
        /\ \A v \in TypeValues :
             query = <<"-">> \o Term(<<"t", "y", "p", "e">>, v) =>
                /\ ~qres.raised
                /\ qres.rows = {k \in 1..Len(posts) :
                                   \/ posts[k].file_ext = None
                                   \/ Val(posts[k].file_ext) # LowerAll(v)}
        /\ \A r \in NegRemainders :
             query = <<"\"", "-">> \o r \o <<"\"">> =>
                /\ ~qres.raised
                /\ \A k \in qres.rows :
                                   /\ posts[k].tag_string # None
                                   /\ ~TagContains(Val(posts[k].tag_string), r)
                /\ (~HasChar(r, "_") /\ ~HasChar(r, "%")) =>
                     \A k \in 1..Len(posts) :
                         (/\ posts[k].tag_string # None
                          /\ ~TagContains(Val(posts[k].tag_string), r))
                            => k \in qres.rows

(* -rating:Explicit has selected a record without rating and every record  *)
(* rated s or q, and no record rated e                                     *)
C13_Witness ==
    /\ Searched
    /\ query = <<"-", "r", "a", "t", "i", "n", "g", ":", "E", "x", "p", "l", "i", "c", "i", "t">>
    /\ \E k \in qres.rows : posts[k].rating = None
    /\ \E k \in qres.rows : posts[k].rating = Some(<<"s">>)
    /\ \E k \in 1..Len(posts) : posts[k].rating = Some(<<"e">>)
    /\ \A k \in qres.rows : posts[k].rating # Some(<<"e">>)

-----------------------------------------------------------------------------
(* The non-empty pieces of a token between its stars, in order *)
RECURSIVE Segments(_, _)
Segments(token, current) ==
    IF token = <<>> THEN (IF current = <<>> THEN <<>> ELSE <<current>>)
    ELSE IF Head(token) = "*"
    THEN (IF current = <<>> THEN <<>> ELSE <<current>>) \o Segments(Tail(token), <<>>)
    ELSE Segments(Tail(token), Append(current, Head(token)))

(* text holds the segments one after the other from position from on, with *)
(* any text before, between and after them; letters compare without case  *)
RECURSIVE InOrder(_, _, _)
InOrder(text, segs, from) ==
    IF segs = <<>> THEN TRUE
    ELSE \E k \in from..(Len(text) - Len(Head(segs))) :
            /\ \A j \in 1..Len(Head(segs)) :
                 Lower(text[k + j]) = Lower(Head(segs)[j])
            /\ InOrder(text, Tail(segs), k + Len(Head(segs)))

(* C14: a token with '*' (no ':', no leading '~' or '-') selects exactly   *)
(* the records whose tag string contains the token's non-star segments in  *)
(* order with any text between them; so cat*, *cat and *cat* select what   *)
(* the plain token cat selects, and cat* selects "category wildcat".       *)
C14_WildcardContainment ==
    Searched =>
        \A token \in WildTokens :
            query = token =>
                /\ ~qres.raised
                /\ qres.rows =
                     {k \in 1..Len(posts) :
                         /\ posts[k].tag_string # None
                         /\ InOrder(Val(posts[k].tag_string),
                                    Segments(token, <<>>), 0)}
                /\ token \in {<<"c", "a", "t", "*">>, <<"*", "c", "a", "t">>, <<"*", "c", "a", "t", "*">>} =>
                     /\ qres.rows = search_posts(posts, <<"c", "a", "t">>, DEFAULT_LIMIT).rows
                     /\ \E k \in qres.rows :
                          posts[k].tag_string = Some(<<"c", "a", "t", "e", "g", "o", "r", "y", " ", "w", "i", "l", "d", "c", "a", "t">>)

-----------------------------------------------------------------------------
(* part stands in text at positions k + 1 .. k + Len(part) *)
StandsAt(text, part, k) ==
    /\ k + Len(part) <= Len(text)
    /\ \A j \in 1..Len(part) : Lower(text[k + j]) = Lower(part[j])

(* Some space-separated word of text starts with / ends with part *)
SomeTagStarts(text, part) ==
    \E k \in 0..Len(text) :
        StandsAt(text, part, k) /\ (k = 0 \/ text[k] = " ")

SomeTagEnds(text, part) ==
    \E k \in 0..Len(text) :
        /\ StandsAt(text, part, k)
        /\ (k + Len(part) = Len(text) \/ text[k + Len(part) + 1] = " ")

(* C15: as the search help states, cat* selects only records with a tag    *)
(* that starts with "cat", and *cat only records with a tag that ends with *)
(* "cat", a tag being one space-separated word of the tag string.          *)
C15_HelpWildcards ==
    Searched =>
        /\ query = <<"c", "a", "t", "*">> =>
             \A k \in qres.rows :
                 /\ posts[k].tag_string # None
                 /\ SomeTagStarts(Val(posts[k].tag_string), <<"c", "a", "t">>)
        /\ query = <<"*", "c", "a", "t">> =>
             \A k \in qres.rows :
                 /\ posts[k].tag_string # None
                 /\ SomeTagEnds(Val(posts[k].tag_string), <<"c", "a", "t">>)

-----------------------------------------------------------------------------
(* The kind of a token: what it is without its tag text or value.  A       *)
(* numeric or size term keeps its key and its operator prefix.             *)
KeyPart(t) ==
    LowerAll(SubSeq(t, 1, (CHOOSE k \in 1..Len(t) :
                              t[k] = ":" /\ \A j \in 1..(k - 1) : t[j] # ":") - 1))
ValuePart(t) ==
    SubSeq(t, (CHOOSE k \in 1..Len(t) :
                  t[k] = ":" /\ \A j \in 1..(k - 1) : t[j] # ":") + 1, Len(t))

OperatorOf(v) ==
    IF Len(v) >= 2 /\ SubSeq(v, 1, 2) \in {<<">", "=">>, <<"<", "=">>} THEN SubSeq(v, 1, 2)
    ELSE IF Len(v) >= 1 /\ SubSeq(v, 1, 1) \in {<<">">>, <<"<">>} THEN SubSeq(v, 1, 1)
    ELSE <<>>

KindOf(t) ==
    IF t[1] = "~" THEN <<"or">>
    ELSE IF t[1] = "-"
    THEN IF HasChar(Tail(t), ":") /\ KeyPart(Tail(t)) \in {<<"r", "a", "t", "i", "n", "g">>, <<"t", "y", "p", "e">>}
         THEN <<"negated", KeyPart(Tail(t))>>
         ELSE <<"negated tag">>
    ELSE IF HasChar(t, ":")
    THEN IF KeyPart(t) = <<"r", "a", "t", "i", "n", "g">> THEN <<"meta", "rating">>
         ELSE IF KeyPart(t) \in {<<"t", "y", "p", "e">>, <<"f", "i", "l", "e", "t", "y", "p", "e">>, <<"f", "i", "l", "e", "_", "t", "y", "p", "e">>}
         THEN <<"meta", "file_ext">>
         ELSE IF KeyPart(t) \in NumKeys
         THEN <<"meta", ColumnOf(KeyPart(t)), OperatorOf(ValuePart(t))>>
         ELSE IF KeyPart(t) \in SizeKeys
         THEN <<"meta", "file_size", OperatorOf(ValuePart(t))>>
         ELSE <<"tag">>
    ELSE IF HasChar(t, "*") THEN <<"wildcard">>
    ELSE <<"tag">>

Kinds(tokens) == [k \in 1..Len(tokens) |-> KindOf(tokens[k])]

(* The text of the WHERE clause *)
RECURSIVE SqlText(_)
SqlText(sql) == IF sql = <<>> THEN "" ELSE Head(sql).text \o SqlText(Tail(sql))

(* C16: the SQL text search_posts produces depends only on the sequence of *)
(* token kinds: two queries whose tokens have the same kinds, and differ   *)
(* only in tag text or in numeric, rating or type values, both compile,    *)
(* and to the same SQL text.                                               *)
C16_SqlTextFromKinds ==
    Searched =>
        \A tokens \in ValueTokenLists :
            query = JoinAll(tokens) =>
                /\ ~qres.raised
                /\ \A others \in ValueTokenLists :
                     Kinds(others) = Kinds(tokens) =>
                        SqlText(qres.sql) =
                            SqlText(Compile(JoinAll(others), DEFAULT_LIMIT).sql)

-----------------------------------------------------------------------------
(* Further properties of the ingestor *)

(* The run in progress has seen the cancel flag set (line 515 or 571) *)
ObservedIn(r) == hist[r].cancelled # {} \/ hist[r].cancelTop

(* C17: a run is not aborted by the failure of a file (a failed request, a *)
(* failed read, an exception in the per-file try block): unless it has     *)
(* observed cancellation, a run that is over has attempted every file of   *)
(* files_to_process, in order, and has set is_downloading to false.        *)
C17_FailureIsolation ==
    (RunOver /\ ~ObservedIn(run)) =>
        /\ ~is_downloading
        /\ hist[run].ended
        /\ hist[run].attempted = files_to_process

(* A run whose first file failed and whose second file was still streamed *)
C17_Witness ==
    /\ RunOver /\ ~ObservedIn(run)
    /\ Len(files_to_process) = 2
    /\ files_to_process[1] \in hist[run].failed \cup hist[run].skipped
    /\ files_to_process[2] \in hist[run].opened \ hist[run].failed
    /\ hist[run].chunks > 0

(* The run in progress has observed the cancel flag *)
Observed == run > 0 /\ pc # "idle" /\ ObservedIn(run)

IsPrefix(a, b) == Len(a) <= Len(b) /\ SubSeq(b, 1, Len(a)) = a

(* C18: once the run has observed the cancel flag set, no step of it       *)
(* processes a further chunk or makes a further file current, and every    *)
(* row stored before stays in the store, in its place.                     *)
C18_CooperativeCancellation ==
    [][Observed =>
          /\ hist'[run].chunks = hist[run].chunks
          /\ hist'[run].attempted = hist[run].attempted
          /\ hist'[run].opened = hist[run].opened
          /\ IsPrefix(posts, posts')]_vars

(* A run over two files that observed the flag while streaming the first,  *)
(* after a batch was committed, and ended without making the second        *)
(* current                                                                 *)
C18_Witness ==
    /\ RunOver
    /\ hist[run].cancelled # {}
    /\ hist[run].chunks > 0
    /\ posts # <<>>
    /\ Len(files_to_process) = 2
    /\ Len(hist[run].attempted) = 1

(* C19: no step of download_and_process changes the cancel flag, so a      *)
(* cancel() issued while is_downloading is true is never lost: the flag    *)
(* stays set for as long as the run goes on, and the run makes no further  *)
(* file current after it.                                                  *)
C19_CancelNeverLost ==
    [][(is_downloading /\ cancel_flag) =>
          /\ cancel_flag'
          /\ hist'[run].attempted = hist[run].attempted]_vars

(* The names of the listing that end with .jsonl *)
JsonlNames(rem) ==
    {f \in {rem.listing[k] : k \in 1..Len(rem.listing)} :
        Len(f) >= 6 /\ SubSeq(f, Len(f) - 5, Len(f)) = <<".", "j", "s", "o", "n", "l">>}

(* The names of a set in lexicographic order *)
RECURSIVE AscendingNames(_)
AscendingNames(S) ==
    IF S = {} THEN <<>>
    ELSE LET m == CHOOSE x \in S : \A y \in S \ {x} : StrLess(x, y)
         IN <<m>> \o AscendingNames(S \ {m})

NotIn(names, ledg) ==
    LET keep == {k \in 1..Len(names) : names[k] \notin ledg}
    IN [n \in 1..Cardinality(keep) |->
           names[CHOOSE k \in keep : Cardinality({j \in keep : j < k}) = n - 1]]

(* Filtered, sorted, cut to the limit, and only then reduced by the ledger *)
Expected(rem, limit, ledg) ==
    LET all == AscendingNames(JsonlNames(rem))
        cut == IF limit > 0 THEN SubSeq(all, 1, Min(limit, Len(all))) ELSE all
    IN NotIn(cut, ledg)

(* C20: the listing step leaves in files_to_process the listing filtered   *)
(* to .jsonl, sorted, cut to the first file_limit names when a limit is    *)
(* set and then reduced by the ledger, or nothing when the listing fails;  *)
(* when that is empty the run fetches nothing, reports progress 1.0 once   *)
(* and ends; the files a run attempts are the first of files_to_process,   *)
(* in order, and no others.                                                *)
C20_Listing ==
    [][/\ (pc = "list" /\ pc' # "list") =>
            /\ \/ files_to_process' = Expected(remote, file_limit, ledger)
               \/ files_to_process' = <<>> /\ hist'[run].listFailed
            /\ files_to_process' = <<>> =>
                 /\ pc' = "idle"
                 /\ ~is_downloading'
                 /\ hist'[run].ended
                 /\ hist'[run].doneReports = 1
                 /\ hist'[run].attempted = <<>>
                 /\ hist'[run].opened = {}
       /\ run' > 0 => IsPrefix(hist'[run'].attempted, files_to_process')]_vars

(* A second run under a limit of one file whose first sorted name is in    *)
(* the ledger: it ended at once, though the listing holds a .jsonl file    *)
(* that was never fetched                                                  *)
C20_Witness ==
    /\ RunOver /\ run = 2
    /\ file_limit = 1
    /\ ~hist[run].listFailed
    /\ hist[run].attempted = <<>>
    /\ hist[run].doneReports = 1
    /\ ledger # {}
    /\ JsonlNames(remote) \ ledger # {}


-----------------------------------------------------------------------------
(* The lines of a byte stream: the pieces between newlines, the            *)
(* unterminated rest included.                                             *)
RECURSIVE Flat(_)
Flat(chunks) == IF chunks = <<>> THEN <<>> ELSE Head(chunks) \o Flat(Tail(chunks))

RECURSIVE LinesOf(_)
LinesOf(text) ==
    IF ~HasNL(text) THEN (IF text = <<>> THEN <<>> ELSE <<text>>)
    ELSE <<SubSeq(text, 1, FirstNL(text) - 1)>>
         \o LinesOf(SubSeq(text, FirstNL(text) + 1, Len(text)))

RECURSIVE Decodable(_)
Decodable(lines) ==
    IF lines = <<>> THEN <<>>
    ELSE (IF Strip(Head(lines)) # <<>> /\ JsonLoads(Head(lines)) # Invalid
          THEN <<JsonLoads(Head(lines))>> ELSE <<>>) \o Decodable(Tail(lines))

(* The records of a file, in the order of their lines in the stream. *)
RecordsOf(chunks) == Decodable(LinesOf(Flat(chunks)))

Over(r, f) == f \in hist[r].marked \cup hist[r].skipped

(* C21: the records of the file being read are handed to insert_batch in   *)
(* the order of their lines in the stream, whatever the chunk boundaries   *)
(* and batch flushes; the files a run makes current are in ascending name  *)
(* order, and each but the last has been recorded or skipped before the    *)
(* next one is made current.                                               *)
C21_IngestionOrder ==
    /\ stream.file # NoFile =>
          IsPrefix(stream.handed, RecordsOf(Chunks(remote, stream.file)))
    /\ \A r \in 1..run :
          LET a == hist[r].attempted IN
          /\ \A j, k \in 1..Len(a) : j < k => StrLess(a[j], a[k])
          /\ \A j \in 1..(Len(a) - 1) : Over(r, a[j])

(* The second file of a run has handed over two records, the second from a *)
(* line whose newline came in the next chunk, after the first file handed  *)
(* over five in three batches.                                             *)
C21_Witness ==
    /\ remote.content = 3
    /\ run = 1
    /\ hist[1].attempted = <<FileA, FileB>>
    /\ stream.file = FileB
    /\ Len(stream.handed) = 2
    /\ pc = "tail"
    /\ FileA \in hist[1].marked
    /\ \E k \in 1..Len(posts) : posts[k].post_id = Some(3)

-----------------------------------------------------------------------------
(* The records of the current file that carry hash m, in stream order. *)
Carrying(m) ==
    LET recs == RecordsOf(Chunks(remote, stream.file))
        at == Ascending({k \in 1..Len(recs) :
                            recs[k].kind = "obj" /\ recs[k].md5 = m})
    IN [n \in 1..Len(at) |-> recs[at[n]]]

HasId(d) == d.id # None

(* The rows stored since the current file was opened whose non-empty hash  *)
(* the store did not hold before.                                          *)
NewHashRows ==
    {k \in (stream.base + 1)..Len(posts) :
        /\ Truthy(posts[k].md5)
        /\ \A j \in 1..stream.base : posts[j].md5 # posts[k].md5}

-----------------------------------------------------------------------------
(* C23: while a file is streamed the pending batch never holds more than   *)
(* batch_size records, and between two lines of the loop it holds fewer:   *)
(* a batch that reaches batch_size is flushed and emptied before the next  *)
(* line is decoded.                                                        *)
C23_BoundedBatch ==
    /\ stream.peak <= batch_size
    /\ pc \in {"chunks", "tail"} => Len(stream.batch) < batch_size

(* A full batch has been flushed and the next record is pending. *)
C23_Witness ==
    /\ pc = "chunks"
    /\ stream.peak = batch_size
    /\ Len(stream.handed) = batch_size
    /\ Len(stream.batch) = 1

-----------------------------------------------------------------------------
IsObj(d) == d.kind = "obj"

HasUndecodable(chunks) ==
    \E k \in 1..Len(LinesOf(Flat(chunks))) :
        LET line == LinesOf(Flat(chunks))[k] IN
        Strip(line) # <<>> /\ JsonLoads(line) = Invalid

(* The current file has been read without cancellation and without a      *)
(* failure of the transport.                                               *)
ReadThrough ==
    /\ pc = "mark"
    /\ stream.file \notin hist[run].cancelled \cup hist[run].failed

(* C24: a line that fails JSON decoding is discarded alone: when a file    *)
(* that has such a line has been read, every line of it that decodes to a  *)
(* record, the unterminated last line included, has been handed to         *)
(* insert_batch.                                                           *)
C24_DecodeErrorIsolation ==
    (ReadThrough /\ HasUndecodable(Chunks(remote, stream.file))) =>
        SelectSeq(stream.handed, IsObj)
            = SelectSeq(RecordsOf(Chunks(remote, stream.file)), IsObj)

-----------------------------------------------------------------------------
(* C25: every access to the connection is made inside the lock: no thread  *)
(* works on the connection, close() included, while another thread is      *)
(* inside a store method.                                                  *)
C25_SerializedAccess ==
    \A t \in Threads :
        thread[t].at = "inside" =>
            \A u \in Threads \ {t} : thread[u].at \notin {"inside", "closing"}

-----------------------------------------------------------------------------
HasNonObject(chunks) ==
    \E k \in 1..Len(RecordsOf(chunks)) : ~IsObj(RecordsOf(chunks)[k])

(* The table holds the record, or a row with the record's hash. *)
Persisted(d) ==
    \E k \in 1..Len(posts) :
        posts[k] = Row(d) \/ (d.md5 # None /\ posts[k].md5 = d.md5)

(* C26: a line that decodes to a value that is not an object costs that    *)
(* line only: once a file with such a line is recorded in the ledger by a  *)
(* run that read it without cancellation or transport failure, every line  *)
(* of it that decodes to an object with a post id is in the store (or its  *)
(* hash is).                                                               *)
C26_NonObjectIsolation ==
    \A r \in 1..run :
        \A f \in hist[r].marked \ (hist[r].cancelled \cup hist[r].failed) :
            HasNonObject(Chunks(remote, f)) =>
                \A k \in 1..Len(RecordsOf(Chunks(remote, f))) :
                    LET d == RecordsOf(Chunks(remote, f))[k] IN
                    (IsObj(d) /\ HasId(d)) => Persisted(d)

-----------------------------------------------------------------------------
(* The lines of a text that a newline ends. *)
RECURSIVE TerminatedLines(_)
TerminatedLines(text) ==
    IF ~HasNL(text) THEN <<>>
    ELSE <<SubSeq(text, 1, FirstNL(text) - 1)>>
         \o TerminatedLines(SubSeq(text, FirstNL(text) + 1, Len(text)))

(* The stream of the current file was consumed to its end. *)
Exhausted ==
    /\ pc \in {"tail", "mark"}
    /\ stream.pos = Len(Chunks(remote, stream.file))
    /\ stream.file \notin hist[run].cancelled \cup hist[run].failed

(* What the complete lines among the chunks taken from the stream so far   *)
(* decode to.                                                              *)
CompleteRecords ==
    LET chunks == Chunks(remote, stream.file) IN
    IF Exhausted THEN RecordsOf(chunks)
    ELSE Decodable(TerminatedLines(Flat(SubSeq(chunks, 1, stream.pos))))

(* C27: every row stored while a file is ingested was decoded from a       *)
(* complete line of it: one ended by a newline, or the unterminated rest   *)
(* once the stream was consumed to its end.                                *)
C27_CompleteLinesOnly ==
    stream.file # NoFile =>
        \A k \in (stream.base + 1)..Len(posts) :
            \E j \in 1..Len(CompleteRecords) :
                IsObj(CompleteRecords[j]) /\ posts[k] = Row(CompleteRecords[j])

-----------------------------------------------------------------------------
(* The parameters from a given placeholder on, as many as there are holes. *)
Bound(c, piece) ==
    SubSeq(c.params, Holes(SubSeq(c.sql, 1, piece - 1)) + 1,
           Holes(SubSeq(c.sql, 1, piece)))

(* C28: the statement search_posts hands to cursor.execute has as many '?' *)
(* as params has entries; the last entry is the limit, bound to LIMIT ?,   *)
(* the entries of the OR piece are the patterns of the ~ tokens in order,  *)
(* and a comparison with a numeric column is bound to a number.            *)
C28_PlaceholderAlignment ==
    Searched =>
        \A c \in {Compile(query, DEFAULT_LIMIT)} :
            ~c.raised =>
                LET members == SelectSeq(qres.terms, IsOrToken) IN
                /\ Holes(c.sql) + 1 = Len(c.params)
                /\ c.params[Len(c.params)] = IntV(DEFAULT_LIMIT)
                /\ \A k \in 1..Len(c.sql) :
                     /\ c.sql[k].kind = "or" =>
                          Bound(c, k) = [m \in 1..Len(members) |->
                                            StrV(Contains(Tail(members[m])))]
                     /\ c.sql[k].col \in {"score", "fav_count", "image_width",
                                           "image_height", "file_size", "post_id"}
                          => /\ Len(Bound(c, k)) = 1
                             /\ Bound(c, k)[1].t = "int"

-----------------------------------------------------------------------------
(* A plain tag: one token without '~', '-', ':', '*', quote or blank. *)
PlainTag(q) ==
    /\ q # <<>>
    /\ \A k \in 1..Len(q) : q[k] \notin {"~", "-", ":", "*", "\""} /\ ~IsSpace(q[k])

(* C29: for a plain tag T, every stored record, the records without a tag  *)
(* string included, is returned by exactly one of the queries T and -T.    *)
C29_TagComplement ==
    (Searched /\ PlainTag(query)) =>
        \A k \in 1..Len(posts) :
            (k \in qres.rows)
                # (k \in search_posts(posts, <<"-">> \o query, DEFAULT_LIMIT).rows)

-----------------------------------------------------------------------------
(* Fractions as pairs of a numerator and a positive denominator *)
FracLeq(a, b) == a[1] * b[2] <= b[1] * a[2]

InUnit(a) == a[2] > 0 /\ 0 <= a[1] /\ a[1] <= a[2]

(* Nothing went wrong in the run so far: no cancellation seen, no failed   *)
(* fetch, no skipped file, no exception in a batch insert.                 *)
Untroubled(r) ==
    /\ hist[r].cancelled = {}
    /\ hist[r].failed = {}
    /\ hist[r].skipped = {}
    /\ hist[r].raised = {}
    /\ ~hist[r].cancelTop
    /\ ~hist[r].listFailed

(* C30: the fractions a run hands to progress_callback (at the start of a  *)
(* file, after a chunk, at the end) are in [0, 1] and never decrease,      *)
(* whatever files are listed, whichever of them are in the ledger already  *)
(* and whatever the chunk sizes; stated here for the runs in which nothing *)
(* failed and no cancellation was seen.                                    *)
C30_MonotoneProgress ==
    \A r \in 1..run :
        Untroubled(r) =>
            LET p == hist[r].reports IN
            /\ \A k \in 1..Len(p) : InUnit(p[k])
            /\ \A k \in 1..(Len(p) - 1) : FracLeq(p[k], p[k + 1])

-----------------------------------------------------------------------------
(* C31: the N of a run's "Done! Added N posts." is the number of rows the  *)
(* run added to the table, not a total carried over from earlier runs;     *)
(* stated here for the runs in which no batch insert raised.               *)
C31_MessageCountsThisRun ==
    \A r \in 1..run :
        (hist[r].message # None /\ hist[r].raised = {}) =>
            Val(hist[r].message) = hist[r].endCount - hist[r].startCount

-----------------------------------------------------------------------------
(* Runs started from the UI.  start_download starts a thread that calls    *)
(* download_and_process on the one DatasetDownloader; every thread works   *)
(* on the downloader's fields and on the store.  at is the thread's place  *)
(* in download_and_process, files and i are its locals files_to_process    *)
(* and the loop index.  The streaming of one file is taken as one step.    *)

(* _stream_process_file read to the end: the table and the value returned *)
stream_process_file(tbl, chunks) ==
    LET st == StreamAll([tbl |-> tbl, buffer |-> <<>>, batch |-> <<>>,
                         posts_added |-> 0, handed |-> <<>>, peak |-> 0,
                         raised |-> FALSE], chunks)
        end == IF st.raised THEN st ELSE ProcessTail(st)
    IN [tbl |-> end.tbl, posts_added |-> end.posts_added]

(* start_download, lines 877-898: the limit is set and a thread started;   *)
(* nothing is asked of is_downloading.                                     *)
start_download ==
    /\ Len(workers) < MaxStarts
    /\ \E test_mode \in BOOLEAN :
          file_limit' = IF test_mode THEN 1 ELSE 0
    /\ workers' = Append(workers, [at |-> "begin", files |-> <<>>, i |-> 0])
    /\ UNCHANGED <<storeVars, cancel_flag, total_files, processed_files,
                   total_posts_added, is_downloading, pc, files_to_process, i,
                   stream, remote, run, hist, op, queryVars, lockVars>>

(* line 493 *)
WorkerBegin(w) ==
    /\ workers[w].at = "begin"
    /\ is_downloading' = TRUE
    /\ workers' = [workers EXCEPT ![w].at = "clear"]
    /\ UNCHANGED <<storeVars, cancel_flag, file_limit, total_files,
                   processed_files, total_posts_added, pc, files_to_process, i,
                   stream, remote, run, hist, op, queryVars, lockVars>>

(* line 494 *)
WorkerClear(w) ==
    /\ workers[w].at = "clear"
    /\ cancel_flag' = FALSE
    /\ workers' = [workers EXCEPT ![w].at = "list"]
    /\ UNCHANGED <<storeVars, file_limit, total_files, processed_files,
                   total_posts_added, is_downloading, pc, files_to_process, i,
                   stream, remote, run, hist, op, queryVars, lockVars>>

(* lines 496-512 *)
WorkerList(w) ==
    /\ workers[w].at = "list"
    /\ \E ok \in BOOLEAN :
        LET jsonl_files == ApplyLimit(get_jsonl_files(remote, ok), file_limit)
            todo == SelectSeq(jsonl_files,
                              LAMBDA f : ~is_file_processed(ledger, f))
        IN /\ total_files' = Len(jsonl_files)
           /\ processed_files' = 0
           /\ IF todo = <<>>
              THEN /\ is_downloading' = FALSE
                   /\ workers' = [workers EXCEPT ![w].at = "done"]
              ELSE /\ is_downloading' = is_downloading
                   /\ workers' = [workers EXCEPT ![w].at = "loop",
                                                 ![w].files = todo,
                                                 ![w].i = 1]
    /\ UNCHANGED <<storeVars, cancel_flag, file_limit, total_posts_added, pc,
                   files_to_process, i, stream, remote, run, hist, op,
                   queryVars, lockVars>>

(* lines 514-545: one turn of the per-file loop *)
WorkerFile(w) ==
    /\ workers[w].at = "loop"
    /\ IF workers[w].i > Len(workers[w].files) \/ cancel_flag
       THEN /\ workers' = [workers EXCEPT ![w].at = "finish"]
            /\ UNCHANGED <<storeVars, processed_files, total_posts_added>>
       ELSE \E r \in {stream_process_file(
                          posts, Chunks(remote, workers[w].files[workers[w].i]))} :
               /\ posts' = r.tbl
               /\ total_posts_added' = total_posts_added + r.posts_added
               /\ ledger' = mark_file_processed(
                                ledger, workers[w].files[workers[w].i])
               /\ processed_files' = processed_files + 1
               /\ workers' = [workers EXCEPT ![w].i = @ + 1]
    /\ UNCHANGED <<cancel_flag, file_limit, total_files, is_downloading, pc,
                   files_to_process, i, stream, remote, run, hist, op,
                   queryVars, lockVars>>

(* lines 547-549 *)
WorkerFinish(w) ==
    /\ workers[w].at = "finish"
    /\ is_downloading' = FALSE
    /\ workers' = [workers EXCEPT ![w].at = "done"]
    /\ UNCHANGED <<storeVars, cancel_flag, file_limit, total_files,
                   processed_files, total_posts_added, pc, files_to_process, i,
                   stream, remote, run, hist, op, queryVars, lockVars>>

InitStart == Init

NextStart ==
    \/ start_download
    \/ \E w \in 1..Len(workers) : WorkerBegin(w)
    \/ \E w \in 1..Len(workers) : WorkerClear(w)
    \/ \E w \in 1..Len(workers) : WorkerList(w)
    \/ \E w \in 1..Len(workers) : WorkerFile(w)
    \/ \E w \in 1..Len(workers) : WorkerFinish(w)
    \/ Cancel

SpecStart == InitStart /\ [][NextStart]_vars

(* The threads that are inside download_and_process *)
Active == {w \in 1..Len(workers) : workers[w].at \notin {"begin", "done"}}

(* C32: at most one run is active on the downloader at any time: a call of *)
(* start_download while a run is in progress does not put a second thread  *)
(* into download_and_process next to the first.                            *)
C32_OneActiveRun == Cardinality(Active) <= 1
====
